---- MODULE Spec2Model ----
(***************************************************************************)
(* c14vm: the lexical scanner (src/src/scanner.c), the token buffer and    *)
(* the backtracking recursive-descent engine (src/src/parser.c).           *)
(*                                                                         *)
(* Code units are modelled as short strings: a printable code unit is the  *)
(* one-character string itself, the others carry a name ("LF", "CR", "DQ"  *)
(* for the double quote, "SQ" for the single quote, "BSL" for the          *)
(* backslash, "HS"/"LS" for a high/low surrogate half, ...).  Scan         *)
(* positions are 0-based as in the C code; src[pos + 1] is the code unit   *)
(* at scan position pos.                                                   *)
(***************************************************************************)
EXTENDS Integers, Sequences, FiniteSets, TLC

VARIABLES
  scanner,    \* struct scanner: src, src_len, prev_token_type, curr_locn, save_locn
  parser,     \* struct parser: tokens, num_tokens, root
  heap,       \* the parse_node objects allocated so far and the buffers freed
  stack,      \* the activation records of parser_parse, outermost first
  q_pos,      \* the local q_pos of parser_parse_script, shared by every activation
  phase,      \* "start", "parse", "return", "returned", "deleted", "exited",
              \* "aborted"; "scan"
  status,     \* the status the run ended with
  oom,        \* the allocation that fails in this run: [kind, n], n = 0 for none
  allocs,     \* how many allocations of each kind were made so far
  produced,   \* history: the tokens scanner_get_next_token has returned, in order
  trail       \* history: what the last step did

vars == << scanner, parser, heap, stack, q_pos, phase, status, oom, allocs,
           produced, trail >>

-----------------------------------------------------------------------------
(* Error codes (pub/error.h).  ERR_SUCCESS is the value every `if (err)`   *)
(* test takes for success.                                                 *)
ERR_SUCCESS == 0
ERR_NO_MATCH == 1
ERR_END_OF_FILE == 2
ERR_INVALID_TOKEN == 3
ERR_NO_MEMORY == 4
ERR_INVALID_PARAMETER == 5

NULL == 0

-----------------------------------------------------------------------------
(* enum token_type, in declaration order; the value of a name is its index *)
(* counted from 0.                                                         *)
token_type ==
  <<"TOKEN_INVALID", "TOKEN_NEW_LINE", "TOKEN_STRING", "TOKEN_NUMBER",
     "TOKEN_LEFT_PAREN", "TOKEN_LEFT_BRACE", "TOKEN_LEFT_BRACKET",
     "TOKEN_RIGHT_PAREN", "TOKEN_RIGHT_BRACE", "TOKEN_RIGHT_BRACKET",
     "TOKEN_PLUS", "TOKEN_MINUS", "TOKEN_DIV", "TOKEN_MUL", "TOKEN_MOD",
     "TOKEN_EXP", "TOKEN_NUMBER_SIGN", "TOKEN_DOT", "TOKEN_QUOTE",
     "TOKEN_DOUBLE_QUOTE", "TOKEN_BACK_QUOTE", "TOKEN_COLON",
     "TOKEN_SEMI_COLON", "TOKEN_COMMA", "TOKEN_ARROW", "TOKEN_QUESTION_DOT",
     "TOKEN_EQUALS", "TOKEN_DOUBLE_EQUALS", "TOKEN_TRIPLE_EQUALS",
     "TOKEN_MUL_EQUALS", "TOKEN_MOD_EQUALS", "TOKEN_DIV_EQUALS",
     "TOKEN_PLUS_EQUALS", "TOKEN_MINUS_EQUALS", "TOKEN_EXP_EQUALS",
     "TOKEN_SHL_EQUALS", "TOKEN_SHR_EQUALS", "TOKEN_SAR_EQUALS",
     "TOKEN_LOGICAL_OR_EQUALS", "TOKEN_LOGICAL_AND_EQUALS",
     "TOKEN_BITWISE_AND_EQUALS", "TOKEN_BITWISE_XOR_EQUALS",
     "TOKEN_BITWISE_OR_EQUALS", "TOKEN_COALESCE_EQUALS", "TOKEN_IDENTIFIER",
     "TOKEN_AS", "TOKEN_ASYNC", "TOKEN_AWAIT", "TOKEN_BREAK", "TOKEN_CASE",
     "TOKEN_CATCH", "TOKEN_CLASS", "TOKEN_CONST", "TOKEN_CONTINUE",
     "TOKEN_DEBUGGER", "TOKEN_DEFAULT", "TOKEN_DELETE", "TOKEN_DO",
     "TOKEN_ELSE", "TOKEN_ENUM", "TOKEN_EXPORT", "TOKEN_EXTENDS",
     "TOKEN_FALSE", "TOKEN_FINALLY", "TOKEN_FOR", "TOKEN_FROM",
     "TOKEN_FUNCTION", "TOKEN_GET", "TOKEN_IF", "TOKEN_IMPLEMENTS",
     "TOKEN_IMPORT", "TOKEN_IN", "TOKEN_INSTANCEOF", "TOKEN_INTERFACE",
     "TOKEN_LET", "TOKEN_META", "TOKEN_NEW", "TOKEN_NULL", "TOKEN_OF",
     "TOKEN_PACKAGE", "TOKEN_PRIVATE", "TOKEN_PROTECTED", "TOKEN_PUBLIC",
     "TOKEN_RETURN", "TOKEN_SET", "TOKEN_STATIC", "TOKEN_SUPER",
     "TOKEN_SWITCH", "TOKEN_TARGET", "TOKEN_THIS", "TOKEN_THROW",
     "TOKEN_TRUE", "TOKEN_TRY", "TOKEN_TYPEOF", "TOKEN_VAR", "TOKEN_VOID",
     "TOKEN_WHILE", "TOKEN_WITH", "TOKEN_YIELD", "SCRIPT", "SCRIPT_BODY",
     "STATEMENT_LIST", "STATEMENT_LIST_ITEM", "STATEMENT", "DECLARATION",
     "BLOCK_STATEMENT", "VARIABLE_STATEMENT", "EMPTY_STATEMENT",
     "EXPRESSION_STATEMENT", "IF_STATEMENT", "BREAKABLE_STATEMENT",
     "CONTINUE_STATEMENT", "BREAK_STATEMENT", "RETURN_STATEMENT",
     "WITH_STATEMENT", "LABELLED_STATEMENT", "THROW_STATEMENT",
     "TRY_STATEMENT", "DEBUGGER_STATEMENT", "BLOCK",
     "VARIABLE_DECLARATION_LIST", "VARIABLE_DECLARATION",
     "BINDING_IDENTIFIER", "BINDING_PATTERN", "INITIALIZER",
     "ASSIGNMENT_EXPRESSION", "LHS_EXPRESSION", "CONDITIONAL_EXPRESSION",
     "YIELD_EXPRESSION", "ARROW_FUNCTION", "ASYNC_ARROW_FUNCTION",
     "IDENTIFIER_NAME", "OPTIONAL_EXPRESSION", "CALL_EXPRESSION",
     "NEW_EXPRESSION", "MEMBER_EXPRESSION", "ARGUMENTS", "EXPRESSION",
     "OPTIONAL_CHAIN", "ARRAY_EXPRESSION", "TEMPLATE_LITERAL",
     "PRIVATE_IDENTIFIER", "CALL_MEMBER_EXPRESSION", "CALL_EXPRESSION_POST",
     "OPTIONAL_CHAIN_POST", "SUPER_CALL", "IMPORT_CALL", "SUPER_PROPERTY",
     "META_PROPERTY", "PRIMARY_EXPRESSION", "MEMBER_EXPRESSION_POST",
     "DOT_IDENTIFIER_NAME", "DOT_PRIVATE_IDENTIFIER", "IMPORT_META",
     "NEW_TARGET", "NUMERIC_LITERAL", "STRING_LITERAL", "ARRAY_LITERAL",
     "OBJECT_LITERAL", "FUNCTION_EXPRESSION", "CLASS_EXPRESSION",
     "GENERATOR_EXPRESSION", "ASYNC_FUNCTION_EXPRESSION",
     "ASYNC_GENERATOR_EXPRESSION", "REGEXP_LITERAL",
     "PARENTHESIZED_EXPRESSION", "IDENTIFIER_REFERENCE" >>

EnumOf(names) == [n \in {names[k] : k \in 1..Len(names)} |->
                    (CHOOSE k \in 1..Len(names) : names[k] = n) - 1]

EnumVal == EnumOf(token_type)

EnumName(v) == token_type[v + 1]

(* The keyword table, in table order. *)
g_key_words ==
  << <<"a","s">>,
     <<"a","s","y","n","c">>,
     <<"a","w","a","i","t">>,
     <<"b","r","e","a","k">>,
     <<"c","a","s","e">>,
     <<"c","a","t","c","h">>,
     <<"c","l","a","s","s">>,
     <<"c","o","n","s","t">>,
     <<"c","o","n","t","i","n","u","e">>,
     <<"d","e","b","u","g","g","e","r">>,
     <<"d","e","f","a","u","l","t">>,
     <<"d","e","l","e","t","e">>,
     <<"d","o">>,
     <<"e","l","s","e">>,
     <<"e","n","u","m">>,
     <<"e","x","p","o","r","t">>,
     <<"e","x","t","e","n","d","s">>,
     <<"f","a","l","s","e">>,
     <<"f","i","n","a","l","l","y">>,
     <<"f","o","r">>,
     <<"f","r","o","m">>,
     <<"f","u","n","c","t","i","o","n">>,
     <<"g","e","t">>,
     <<"i","f">>,
     <<"i","m","p","l","e","m","e","n","t","s">>,
     <<"i","m","p","o","r","t">>,
     <<"i","n">>,
     <<"i","n","s","t","a","n","c","e","o","f">>,
     <<"i","n","t","e","r","f","a","c","e">>,
     <<"l","e","t">>,
     <<"m","e","t","a">>,
     <<"n","e","w">>,
     <<"n","u","l","l">>,
     <<"o","f">>,
     <<"p","a","c","k","a","g","e">>,
     <<"p","r","i","v","a","t","e">>,
     <<"p","r","o","t","e","c","t","e","d">>,
     <<"p","u","b","l","i","c">>,
     <<"r","e","t","u","r","n">>,
     <<"s","e","t">>,
     <<"s","t","a","t","i","c">>,
     <<"s","u","p","e","r">>,
     <<"s","w","i","t","c","h">>,
     <<"t","a","r","g","e","t">>,
     <<"t","h","i","s">>,
     <<"t","h","r","o","w">>,
     <<"t","r","u","e">>,
     <<"t","r","y">>,
     <<"t","y","p","e","o","f">>,
     <<"v","a","r">>,
     <<"v","o","i","d">>,
     <<"w","h","i","l","e">>,
     <<"w","i","t","h">>,
     <<"y","i","e","l","d">> >>

-----------------------------------------------------------------------------
(* Code-unit classes (pub/unicode.h). *)
is_white_space(cu) == cu \in {"TAB", "VT", "FF", " ", "NBSP", "ZWNBSP"}

is_line_terminator(cu) == cu \in {"LF", "CR", "LSEP", "PSEP"}

is_high_surrogate(cu) == cu = "HS"

is_low_surrogate(cu) == cu = "LS"

is_id_start(cu) ==
  cu \in {"a", "b", "c", "d", "e", "f", "g", "h", "i", "j", "k", "l", "m", "n",
          "o", "p", "q", "r", "s", "t", "u", "v", "w", "x", "y", "z",
          "A", "B", "X", "$", "_"}

is_id_continue(cu) ==
  is_id_start(cu) \/ cu \in {"0", "1", "2", "9", "ZWNJ", "ZWJ"}

-----------------------------------------------------------------------------
(* The scanner.  Every operator takes the scanner record and returns what  *)
(* the C function leaves behind.                                           *)

NAME_BUF == 32

NewScanner(src) ==
  [src |-> src, src_len |-> Len(src), prev_token_type |-> "TOKEN_INVALID",
   curr_locn |-> [file_row |-> 0, file_col |-> 0, scan_pos |-> 0],
   save_locn |-> [file_row |-> 0, file_col |-> 0, scan_pos |-> 0]]

scanner_is_end(s, pos) == pos >= s.src_len

scanner_peek(s, offset) ==
  LET pos == s.curr_locn.scan_pos + offset
  IN  IF scanner_is_end(s, pos)
        THEN [err |-> ERR_END_OF_FILE, cu |-> "NUL"]
        ELSE [err |-> ERR_SUCCESS, cu |-> s.src[pos + 1]]

(* One iteration of the loop of scanner_consume, on a location that is not *)
(* at the end.                                                             *)
ConsumeOne(s, locn) ==
  LET cu   == s.src[locn.scan_pos + 1]
      l1   == [locn EXCEPT !.scan_pos = @ + 1]
      pair == is_low_surrogate(cu) /\ l1.scan_pos >= 2
              /\ is_high_surrogate(s.src[l1.scan_pos - 2 + 1])
      l2   == [l1 EXCEPT !.file_col = @ + 1]
      crlf == cu = "CR" /\ ~scanner_is_end(s, l2.scan_pos)
              /\ s.src[l2.scan_pos + 1] = "LF"
      l3   == IF crlf THEN [l2 EXCEPT !.scan_pos = @ + 1] ELSE l2
      cu2  == IF cu = "CR" THEN "LF" ELSE cu
      l4   == IF cu2 = "LF"
                THEN [l3 EXCEPT !.file_row = @ + 1, !.file_col = 0]
                ELSE l3
  IN  IF pair THEN l1 ELSE l4

RECURSIVE ConsumeLoop(_, _, _)
ConsumeLoop(s, locn, n) ==
  IF n = 0 \/ scanner_is_end(s, locn.scan_pos)
    THEN locn
    ELSE ConsumeLoop(s, ConsumeOne(s, locn), n - 1)

scanner_consume(s, num_units) ==
  [s EXCEPT !.curr_locn = ConsumeLoop(s, s.curr_locn, num_units)]

RECURSIVE SingleLineLoop(_)
SingleLineLoop(s) ==
  LET p == scanner_peek(s, 0)
  IN  IF p.err # ERR_SUCCESS \/ is_line_terminator(p.cu)
        THEN s
        ELSE SingleLineLoop(scanner_consume(s, 1))

scanner_skip_single_line_comment(s) == SingleLineLoop(scanner_consume(s, 2))

RECURSIVE MultiLineLoop(_, _, _)
MultiLineLoop(s, has_new_line, half_close_seen) ==
  LET p  == scanner_peek(s, 0)
      s1 == scanner_consume(s, 1)
  IN  IF p.err # ERR_SUCCESS
        THEN [s |-> s, has_new_line |-> has_new_line]
        ELSE IF is_line_terminator(p.cu) THEN MultiLineLoop(s1, TRUE, FALSE)
        ELSE IF p.cu = "*" THEN MultiLineLoop(s1, has_new_line, TRUE)
        ELSE IF p.cu = "/" /\ half_close_seen
          THEN [s |-> s1, has_new_line |-> has_new_line]
        ELSE MultiLineLoop(s1, has_new_line, FALSE)

scanner_skip_multi_line_comment(s) ==
  MultiLineLoop(scanner_consume(s, 2), FALSE, FALSE)

RECURSIVE WhiteSpaceLoop(_, _)
WhiteSpaceLoop(s, has_new_line) ==
  LET p    == scanner_peek(s, 0)
      t    == scanner_peek(s, 1)
      stop == [s |-> s, has_new_line |-> has_new_line]
      ml   == scanner_skip_multi_line_comment(s)
  IN  IF p.err # ERR_SUCCESS THEN stop
      ELSE IF is_white_space(p.cu) \/ is_line_terminator(p.cu)
        THEN WhiteSpaceLoop(scanner_consume(s, 1),
                            IF is_line_terminator(p.cu) THEN TRUE ELSE has_new_line)
      ELSE IF p.cu # "#" /\ p.cu # "/" THEN stop
      ELSE IF p.cu = "#" /\ s.curr_locn.scan_pos # 0 THEN stop
      ELSE IF t.err # ERR_SUCCESS THEN stop
      ELSE IF p.cu = "#"
        THEN IF t.cu = "!"
               THEN WhiteSpaceLoop(scanner_skip_single_line_comment(s), has_new_line)
               ELSE stop
      ELSE IF t.cu = "/"
        THEN WhiteSpaceLoop(scanner_skip_single_line_comment(s), has_new_line)
      ELSE IF t.cu = "*" /\ ml.has_new_line
        THEN WhiteSpaceLoop(ml.s, TRUE)
      ELSE IF t.cu = "*"
        THEN [s |-> ml.s, has_new_line |-> has_new_line]
      ELSE stop

scanner_skip_white_space(s) == WhiteSpaceLoop(s, FALSE)

-----------------------------------------------------------------------------
(* Tokens.  has_cooked says whether token->cooked is non-NULL; cooked is   *)
(* the text the buffer holds.  The allocations inside one scanner call are *)
(* numbered from 1; `fail` names the one that returns NULL (0: none) and   *)
(* na is the number of allocations the call made.  exit says the call      *)
(* ended the process with exit(0).                                         *)

NoToken ==
  [type |-> "TOKEN_INVALID",
   locn |-> [file_row |-> 0, file_col |-> 0, scan_pos |-> 0],
   raw_len |-> 0, has_cooked |-> FALSE, cooked |-> << >>, cooked_len |-> 0,
   flags |-> {}]

token_new(type, locn, raw_len, flags) ==
  [type |-> type, locn |-> locn, raw_len |-> raw_len, has_cooked |-> FALSE,
   cooked |-> << >>, cooked_len |-> 0, flags |-> flags]

token_set_cooked(token, has_cooked, cooked, cooked_len) ==
  [token EXCEPT !.has_cooked = has_cooked, !.cooked = cooked,
                !.cooked_len = cooked_len]

scanner_build_token_FromZero(s, type, flags) ==
  token_new(type, s.save_locn, s.curr_locn.scan_pos,
            IF s.prev_token_type = "TOKEN_NEW_LINE"
              THEN flags \cup {"TF_NL_PFX"} ELSE flags)

scanner_build_token(s, type, flags) ==
  LET fl      == IF s.prev_token_type = "TOKEN_NEW_LINE"
                   THEN flags \cup {"TF_NL_PFX"} ELSE flags
      raw_len == s.curr_locn.scan_pos - s.save_locn.scan_pos
  IN  token_new(type, s.save_locn, raw_len, fl)

ScanResult(err, s, token, exit, na) ==
  [err |-> err, s |-> s, token |-> token, exit |-> exit, na |-> na]

(* The accumulation step shared by the string and the identifier scan: the *)
(* static 32-unit buffer is flushed into the heap buffer when it is full.  *)
Accumulate(L, cu, fail) ==
  IF L.i = NAME_BUF
    THEN IF L.na + 1 = fail
           THEN [L EXCEPT !.na = @ + 1, !.oom = TRUE]
           ELSE [L EXCEPT !.na = @ + 1, !.has_cooked = TRUE,
                          !.cooked = @ \o L.buf, !.cooked_len = @ + L.i,
                          !.buf = << cu >>, !.i = 1]
    ELSE [L EXCEPT !.buf = Append(@, cu), !.i = @ + 1]

SingleEscape(cu) ==
  CASE cu \in {"SQ", "DQ", "BSL"} -> cu
    [] cu = "b" -> "BSP"
    [] cu = "f" -> "FF"
    [] cu = "n" -> "LF"
    [] cu = "r" -> "CR"
    [] cu = "t" -> "TAB"
    [] cu = "v" -> "VT"
    [] OTHER -> "NONE"

NewAccum(s) ==
  [s |-> s, i |-> 0, buf |-> << >>, has_cooked |-> FALSE, cooked |-> << >>,
   cooked_len |-> 0, flags |-> {}, na |-> 0, oom |-> FALSE, err |-> ERR_SUCCESS,
   exit |-> FALSE]

RECURSIVE StringLoop(_, _, _)
StringLoop(L, is_double_quoted, fail) ==
  LET p   == scanner_peek(L.s, 0)
      s1  == scanner_consume(L.s, 1)
      p2  == scanner_peek(s1, 0)
      s2  == scanner_consume(s1, 1)
      esc == SingleEscape(p2.cu)
      a1  == Accumulate([L EXCEPT !.s = s1], p.cu, fail)
      a2  == Accumulate([L EXCEPT !.s = s2], esc, fail)
  IN  IF p.err # ERR_SUCCESS THEN [L EXCEPT !.err = p.err]
      ELSE IF is_double_quoted /\ p.cu = "DQ" THEN [L EXCEPT !.s = s1, !.err = ERR_SUCCESS]
      ELSE IF ~is_double_quoted /\ p.cu = "SQ" THEN [L EXCEPT !.s = s1, !.err = ERR_SUCCESS]
      ELSE IF p.cu = "CR" \/ p.cu = "LF" THEN [L EXCEPT !.s = s1, !.err = ERR_INVALID_TOKEN]
      ELSE IF p.cu # "BSL"
        THEN IF a1.oom THEN a1 ELSE StringLoop(a1, is_double_quoted, fail)
      ELSE IF p2.err # ERR_SUCCESS THEN [L EXCEPT !.s = s1, !.err = p2.err]
      ELSE IF is_line_terminator(p2.cu)
        THEN StringLoop([L EXCEPT !.s = s2], is_double_quoted, fail)
      ELSE IF esc # "NONE"
        THEN IF a2.oom THEN a2 ELSE StringLoop(a2, is_double_quoted, fail)
      ELSE [L EXCEPT !.s = s2, !.exit = TRUE,
                     !.flags = @ \cup {"TF_UNC_SEQ", "TF_HEX_SEQ"}]

(* The tail of both scans: the rest of the static buffer is moved to the   *)
(* heap buffer (one more allocation, when there is a rest).                *)
Flush(L, fail) ==
  IF L.i = 0 THEN L
  ELSE IF L.na + 1 = fail THEN [L EXCEPT !.na = @ + 1, !.oom = TRUE]
  ELSE [L EXCEPT !.na = @ + 1, !.has_cooked = TRUE, !.cooked = @ \o L.buf,
                 !.cooked_len = @ + L.i]

(* The end of both scans, F being the accumulation after the flush:       *)
(* scanner_build_token, then the token takes the heap buffer when          *)
(* keep_cooked holds, as a string and an identifier do.                    *)
BuildScanned(F, type, keep_cooked, fail) ==
  IF F.oom THEN ScanResult(ERR_NO_MEMORY, F.s, NoToken, FALSE, F.na)
  ELSE IF F.na + 1 = fail THEN ScanResult(ERR_NO_MEMORY, F.s, NoToken, FALSE, F.na + 1)
  ELSE ScanResult(ERR_SUCCESS, F.s,
                  IF keep_cooked
                    THEN token_set_cooked(scanner_build_token(F.s, type, F.flags),
                                          F.has_cooked, F.cooked, F.cooked_len)
                    ELSE scanner_build_token(F.s, type, F.flags),
                  FALSE, F.na + 1)

(* scanner_scan_string after its loop, L being what the loop left *)
StringEnd(L, fail) ==
  IF L.exit THEN ScanResult(ERR_SUCCESS, L.s, NoToken, TRUE, L.na)
  ELSE IF L.oom THEN ScanResult(ERR_NO_MEMORY, L.s, NoToken, FALSE, L.na)
  ELSE IF L.err # ERR_SUCCESS THEN ScanResult(L.err, L.s, NoToken, FALSE, L.na)
  ELSE BuildScanned(Flush(L, fail), "TOKEN_STRING", TRUE, fail)

scanner_scan_string(s, fail) ==
  IF scanner_peek(s, 0).err # ERR_SUCCESS
    THEN ScanResult(scanner_peek(s, 0).err, s, NoToken, FALSE, 0)
    ELSE StringEnd(StringLoop(NewAccum(scanner_consume(s, 1)),
                              scanner_peek(s, 0).cu = "DQ", fail), fail)

EqualsLoop_Single(s, type) == [s |-> s, type |-> type]

RECURSIVE EqualsLoop(_, _)
EqualsLoop(s, type) ==
  LET p     == scanner_peek(s, 0)
      type1 == IF type = "TOKEN_EQUALS" /\ p.cu = "=" THEN "TOKEN_DOUBLE_EQUALS"
               ELSE IF type = "TOKEN_EQUALS" /\ p.cu = ">" THEN "TOKEN_ARROW"
               ELSE IF type = "TOKEN_DOUBLE_EQUALS" /\ p.cu = "=" THEN "TOKEN_TRIPLE_EQUALS"
               ELSE "none"
      s1    == scanner_consume(s, 1)
  IN  IF p.err # ERR_SUCCESS \/ type1 = "none" THEN [s |-> s, type |-> type]
      ELSE IF type1 # "TOKEN_DOUBLE_EQUALS" THEN [s |-> s1, type |-> type1]
      ELSE EqualsLoop(s1, type1)

scanner_scan_equals(s, fail) ==
  LET r == EqualsLoop(scanner_consume(s, 1), "TOKEN_EQUALS")
  IN  IF fail = 1 THEN ScanResult(ERR_NO_MEMORY, r.s, NoToken, FALSE, 1)
      ELSE ScanResult(ERR_SUCCESS, r.s, scanner_build_token(r.s, r.type, {}),
                      FALSE, 1)

(* The breaks of the loop of scanner_scan_identifier at the code unit p *)
IdentifierBreaks(L, p) ==
  \/ p.err # ERR_SUCCESS
  \/ is_low_surrogate(p.cu) \/ is_high_surrogate(p.cu)
  \/ /\ p.cu # "BSL"
     /\ \/ L.i = 0 /\ L.cooked_len = 0 /\ ~is_id_start(p.cu)
        \/ (L.i # 0 \/ L.cooked_len # 0) /\ ~is_id_continue(p.cu)

(* The loop is left: by a failed realloc (L.oom), by a break, or by the    *)
(* exit(0) at a backslash.                                                 *)
IdentifierLeft(L, p) ==
  IF L.oom \/ IdentifierBreaks(L, p) THEN L
  ELSE [L EXCEPT !.exit = TRUE, !.flags = @ \cup {"TF_UNC_SEQ"}]

(* name[i++] = cu after the flush of a full buffer, then scanner_consume;  *)
(* a is the accumulation, which has failed when a.oom holds.               *)
IdentifierTaken(a) ==
  IF a.oom THEN a ELSE [a EXCEPT !.s = scanner_consume(a.s, 1)]

RECURSIVE IdentifierLoop(_, _)
IdentifierLoop(L, fail) ==
  IF L.oom \/ IdentifierBreaks(L, scanner_peek(L.s, 0)) \/ scanner_peek(L.s, 0).cu = "BSL"
    THEN IdentifierLeft(L, scanner_peek(L.s, 0))
    ELSE IdentifierLoop(IdentifierTaken(Accumulate(L, scanner_peek(L.s, 0).cu, fail)), fail)

(* g_key_words[i][j] of the C array: the code unit, or the terminating 0.  *)
UnitOf(word, j) == IF j < Len(word) THEN word[j + 1] ELSE "NUL"

KeyWordUnit(i, j) == UnitOf(g_key_words[i + 1], j)

RECURSIVE KeyWordPrefix(_, _, _, _)
KeyWordPrefix(cooked, cooked_len, i, j) ==
  IF j < cooked_len /\ cooked[j + 1] = KeyWordUnit(i, j)
    THEN KeyWordPrefix(cooked, cooked_len, i, j + 1)
    ELSE j

(* KeyWordMatch without the test of the keyword's terminating 0. *)
KeyWordMatch_NoTerminator(cooked_len, i, j) == j = cooked_len

(* The test after the inner loop: the whole name was matched and the      *)
(* keyword ends there.                                                     *)
KeyWordMatch(cooked_len, i, j) == j = cooked_len /\ KeyWordUnit(i, j) = "NUL"

(* The keywords the loop over g_key_words would stop at *)
KeyWordHits(cooked, cooked_len) ==
  { i \in 0..(Len(g_key_words) - 1) :
      KeyWordMatch(cooked_len, i, KeyWordPrefix(cooked, cooked_len, i, 0)) }

(* The loop breaks at the first of them, and type = TOKEN_AS + i. *)
KeyWordFound(hits) ==
  IF hits = {} THEN "TOKEN_IDENTIFIER"
  ELSE EnumName(EnumVal["TOKEN_IDENTIFIER"] + 1
                + (CHOOSE i \in hits : \A k \in hits : i <= k))

KeyWordType(cooked, cooked_len) == KeyWordFound(KeyWordHits(cooked, cooked_len))

(* The keyword search on the flushed name, and the token: a keyword token  *)
(* does not take the heap buffer.                                          *)
IdentifierToken(F, type, fail) ==
  BuildScanned(F, type, type = "TOKEN_IDENTIFIER", fail)

IdentifierFlushed(F, fail) ==
  IF F.oom THEN ScanResult(ERR_NO_MEMORY, F.s, NoToken, FALSE, F.na)
  ELSE IdentifierToken(F, KeyWordType(F.cooked, F.cooked_len), fail)

(* scanner_scan_identifier after its loop, L being what the loop left *)
IdentifierEnd(L, fail) ==
  IF L.exit THEN ScanResult(ERR_SUCCESS, L.s, NoToken, TRUE, L.na)
  ELSE IF L.oom THEN ScanResult(ERR_NO_MEMORY, L.s, NoToken, FALSE, L.na)
  ELSE IF L.i = 0 /\ L.cooked_len = 0
    THEN ScanResult(ERR_INVALID_TOKEN, L.s, NoToken, FALSE, L.na)
  ELSE IdentifierFlushed(Flush(L, fail), fail)

scanner_scan_identifier(s, fail) == IdentifierEnd(IdentifierLoop(NewAccum(s), fail), fail)

(* The switch of scanner_scan_next_token on the code unit peeked at, s1    *)
(* being the scanner with save_locn set.                                   *)
ScanSwitch(s1, p, fail) ==
  IF p.err # ERR_SUCCESS THEN ScanResult(p.err, s1, NoToken, FALSE, 0)
  ELSE IF p.cu = "DQ" \/ p.cu = "SQ" THEN scanner_scan_string(s1, fail)
  ELSE IF p.cu = "=" THEN scanner_scan_equals(s1, fail)
  ELSE IF is_id_start(p.cu) THEN scanner_scan_identifier(s1, fail)
  ELSE ScanResult(ERR_SUCCESS, s1, NoToken, TRUE, 0)

scanner_scan_next_token(s, fail) ==
  ScanSwitch([s EXCEPT !.save_locn = s.curr_locn], scanner_peek(s, 0), fail)

(* scanner_get_next_token after scanner_skip_white_space returned w *)
NewLineSeen(w) ==
  IF w.has_new_line THEN [w.s EXCEPT !.prev_token_type = "TOKEN_NEW_LINE"] ELSE w.s

Restore_KeepsLocation(r) == r

(* scanner_get_next_token after scanner_scan_next_token returned r *)
Restore(r) ==
  IF r.exit THEN r
  ELSE IF r.err # ERR_SUCCESS
    THEN [r EXCEPT !.s = [r.s EXCEPT !.curr_locn = r.s.save_locn]]
  ELSE r

scanner_get_next_token(s, fail) ==
  Restore(scanner_scan_next_token(NewLineSeen(scanner_skip_white_space(s)), fail))

-----------------------------------------------------------------------------
(* Token predicates (src/prv/scanner.h). *)
InRange(v, first, last) == v >= first /\ v <= last

token_type_is_reserved_word(type) ==
  InRange(EnumVal[type], EnumVal["TOKEN_AS"], EnumVal["TOKEN_YIELD"])

token_is_reserved_word(token) == token_type_is_reserved_word(token.type)

token_has_unc_esc(token) == "TF_UNC_SEQ" \in token.flags

token_has_new_line_pfx(token) == "TF_NL_PFX" \in token.flags

token_is_identifier_name(token) ==
  ~(token.type # "TOKEN_IDENTIFIER" /\ ~token_is_reserved_word(token))

token_is_reserved_literal(token) ==
  ~(~token_is_reserved_word(token) \/ token_has_unc_esc(token))

-----------------------------------------------------------------------------
(* Parse nodes.  heap.node[a] is the struct parse_node at address a (NULL  *)
(* is 0): its type, the addresses on its list of children, the token whose *)
(* cooked buffer node->cooked points to (0: NULL), how often               *)
(* parse_node_delete ran on it, and whether the memory calloc returned for *)
(* it is still allocated (live).  heap.freed lists, in order, the tokens    *)
(* whose cooked buffer was handed to free() through a node, and            *)
(* heap.token_deleted the tokens token_delete ran on.  Tokens are named by *)
(* their index in the token buffer.                                        *)

EmptyHeap == [node |-> << >>, freed |-> << >>, token_deleted |-> << >>]

parse_node_new(h, type) ==
  [h EXCEPT !.node = Append(@, [type |-> type, nodes |-> << >>, cooked |-> NULL,
                               deleted |-> 0, live |-> TRUE])]

LastNode(h) == Len(h.node)

RECURSIVE parse_node_delete(_, _)
RECURSIVE DeleteChildren(_, _)
DeleteChildren(h, this) ==
  IF h.node[this].nodes = << >>
    THEN h
    ELSE LET e  == Head(h.node[this].nodes)
             h1 == [h EXCEPT !.node[this].nodes = Tail(@)]
         IN  DeleteChildren(parse_node_delete(h1, e), this)

(* The children are taken off the list and deleted, then node->cooked is   *)
(* freed; the function has no free(this), the node stays allocated.        *)
parse_node_delete(h, this) ==
  IF this = NULL
    THEN h
    ELSE LET h1 == DeleteChildren(h, this)
         IN  [h1 EXCEPT !.node[this].deleted = @ + 1,
                        !.freed = IF h1.node[this].cooked # NULL
                                    THEN Append(@, h1.node[this].cooked) ELSE @]

parse_node_add_child(h, this, child) ==
  [h EXCEPT !.node[this].nodes = Append(@, child)]

parse_node_set_cooked(h, this, tok) == [h EXCEPT !.node[this].cooked = tok]

parse_node_is_reserved_word(h, this) ==
  token_type_is_reserved_word(h.node[this].type)

parse_node_has_children(h, this) == h.node[this].nodes # << >>

(* parser_delete: token_delete on every token of the buffer, then          *)
(* parse_node_delete on the root.                                          *)
parser_delete(h, p) ==
  parse_node_delete([h EXCEPT !.token_deleted = @ \o [k \in 1..p.num_tokens |-> k]],
                    p.root)

(* The cooked buffers handed to free(), in order: through a node, and by   *)
(* token_delete for the tokens that have one.                              *)
Frees(h, p) ==
  h.freed \o SelectSeq(h.token_deleted, LAMBDA k : p.tokens[k].has_cooked)

(* free() was called on a buffer that had already been freed *)
DoubleFree(h, p) ==
  \E i, j \in 1..Len(Frees(h, p)) : i < j /\ Frees(h, p)[i] = Frees(h, p)[j]

-----------------------------------------------------------------------------
(* The token buffer. *)

(* parser_get_token at cursor pos.  failS is the scanner allocation that   *)
(* fails in this call (0: none), failR says whether the realloc of the     *)
(* token array fails.  The result carries the parser and the scanner as    *)
(* the call leaves them, the token and the cursor it stores, whether      *)
(* the scanner was called, and the allocations made: cooked buffers and    *)
(* tokens by the scanner, and the one of the token array.                  *)
GetResult(err, p, s, token, pos, exit, scanned, made, na, nr) ==
  [err |-> err, p |-> p, s |-> s, token |-> token, pos |-> pos, exit |-> exit,
   scanned |-> scanned, made |-> made, na |-> na, nr |-> nr]

(* Buffered storing the result of a failed realloc in this->tokens: the    *)
(* token array is lost.                                                    *)
Buffered_LosesArray(p, pos, failR, r) ==
  IF r.exit
    THEN GetResult(ERR_SUCCESS, p, r.s, NoToken, pos, TRUE, TRUE, NoToken, r.na, 0)
  ELSE IF r.err # ERR_SUCCESS
    THEN GetResult(r.err, p, r.s, NoToken, pos, FALSE, TRUE, NoToken, r.na, 0)
  ELSE IF failR
    THEN GetResult(ERR_NO_MEMORY, [p EXCEPT !.tokens = << >>, !.num_tokens = 0],
                   r.s, NoToken, pos, FALSE, TRUE, r.token, r.na, 1)
  ELSE GetResult(ERR_SUCCESS,
                 [p EXCEPT !.tokens = Append(@, r.token), !.num_tokens = @ + 1],
                 r.s, r.token, pos + 1, FALSE, TRUE, r.token, r.na, 1)

(* Buffered handing the token out without storing it in the token array.  *)
Buffered_DropsToken(p, pos, failR, r) ==
  IF r.exit
    THEN GetResult(ERR_SUCCESS, p, r.s, NoToken, pos, TRUE, TRUE, NoToken, r.na, 0)
  ELSE IF r.err # ERR_SUCCESS
    THEN GetResult(r.err, p, r.s, NoToken, pos, FALSE, TRUE, NoToken, r.na, 0)
  ELSE IF failR
    THEN GetResult(ERR_NO_MEMORY, p, r.s, NoToken, pos, FALSE, TRUE, r.token, r.na, 1)
  ELSE GetResult(ERR_SUCCESS, p, r.s, r.token, pos + 1, FALSE, TRUE, r.token, r.na, 1)

(* parser_get_token at the end of the buffer, r being what the scanner     *)
(* returned: the token array grows by one and takes the token.             *)
Buffered(p, pos, failR, r) ==
  IF r.exit
    THEN GetResult(ERR_SUCCESS, p, r.s, NoToken, pos, TRUE, TRUE, NoToken, r.na, 0)
  ELSE IF r.err # ERR_SUCCESS
    THEN GetResult(r.err, p, r.s, NoToken, pos, FALSE, TRUE, NoToken, r.na, 0)
  ELSE IF failR
    THEN GetResult(ERR_NO_MEMORY, p, r.s, NoToken, pos, FALSE, TRUE, r.token, r.na, 1)
  ELSE GetResult(ERR_SUCCESS,
                 [p EXCEPT !.tokens = Append(@, r.token), !.num_tokens = @ + 1],
                 r.s, r.token, pos + 1, FALSE, TRUE, r.token, r.na, 1)

parser_get_token(p, s, pos, failS, failR) ==
  IF pos > p.num_tokens
    THEN GetResult(ERR_INVALID_PARAMETER, p, s, NoToken, pos, FALSE, FALSE, NoToken, 0, 0)
  ELSE IF pos = p.num_tokens
    THEN Buffered(p, pos, failR, scanner_get_next_token(s, failS))
  ELSE GetResult(ERR_SUCCESS, p, s, p.tokens[pos + 1], pos + 1, FALSE, FALSE, NoToken,
                 0, 0)

-----------------------------------------------------------------------------
(* parser_parse.  An activation record holds the locals of one call: the   *)
(* parameters as received (in_type, in_flags, in_pos), the locals type and *)
(* flags the body overwrites, node, child, err, is_ident, has_opt_chain,   *)
(* i, and pc: -1 before the body has started, otherwise the number of the  *)
(* call site in the symbol's case the activation is waiting at.  child and *)
(* err are written by the callee's return.                                 *)
(*                                                                         *)
(* A handler takes the context c = [f, heap, q_pos] of the activation that *)
(* is resumed and runs the case up to its next parser_parse call, its      *)
(* break, or exit(0).                                                      *)

NewFrame(type, flags, pos) ==
  [in_type |-> type, type |-> type, in_flags |-> flags, flags |-> flags,
   in_pos |-> pos, node |-> NULL, child |-> NULL, err |-> ERR_SUCCESS, pc |-> -1,
   is_ident |-> FALSE, has_opt_chain |-> FALSE, i |-> 0]

Cmd(kind, c, ctype, cflags) ==
  [kind |-> kind, f |-> c.f, heap |-> c.heap, q_pos |-> c.q_pos,
   ctype |-> ctype, cflags |-> cflags]

(* err = parser_parse(this, type, flags, q_pos, &child) *)
CallP(c, pc, type) ==
  Cmd("call", [c EXCEPT !.f.pc = pc, !.f.type = type], type, c.f.flags)

(* err = parser_parse(this, type, 0, q_pos, &child) *)
Call0(c, pc, type) ==
  Cmd("call", [c EXCEPT !.f.pc = pc, !.f.type = type], type, {})

(* flags = fl; err = parser_parse(this, type, flags, q_pos, &child) *)
CallS(c, pc, type, fl) ==
  Cmd("call", [c EXCEPT !.f.pc = pc, !.f.type = type, !.f.flags = fl], type, fl)

(* flags = fl; err = parser_parse(this, type, 0, q_pos, &child) *)
CallX(c, pc, type, fl) ==
  Cmd("call", [c EXCEPT !.f.pc = pc, !.f.type = type, !.f.flags = fl], type, {})

Break(c) == Cmd("break", c, "TOKEN_INVALID", {})

BreakE(c, e) == Break([c EXCEPT !.f.err = e])

Exit(c) == Cmd("exit", c, "TOKEN_INVALID", {})

(* parse_node_delete(child); the pointer is left as it is *)
Del(c) == [c EXCEPT !.heap = parse_node_delete(c.heap, c.f.child)]

(* parse_node_delete(child); child = NULL *)
DelNull(c) == [Del(c) EXCEPT !.f.child = NULL]

(* parse_node_add_child(node, child) *)
Add(c) == [c EXCEPT !.heap = parse_node_add_child(c.heap, c.f.node, c.f.child)]

NoMatch(c) == c.f.err = ERR_NO_MATCH

Failed(c) == c.f.err # ERR_SUCCESS

g_assign_expr_ops ==
  << "TOKEN_EQUALS", "TOKEN_MUL_EQUALS", "TOKEN_DIV_EQUALS", "TOKEN_MOD_EQUALS",
     "TOKEN_PLUS_EQUALS", "TOKEN_MINUS_EQUALS", "TOKEN_EXP_EQUALS",
     "TOKEN_SHL_EQUALS", "TOKEN_SHR_EQUALS", "TOKEN_SAR_EQUALS",
     "TOKEN_LOGICAL_OR_EQUALS", "TOKEN_LOGICAL_AND_EQUALS",
     "TOKEN_BITWISE_AND_EQUALS", "TOKEN_BITWISE_XOR_EQUALS",
     "TOKEN_BITWISE_OR_EQUALS", "TOKEN_COALESCE_EQUALS" >>

H_PRIVATE_IDENTIFIER(c) ==
  CASE c.f.pc = 0 -> Call0(c, 1, "TOKEN_NUMBER_SIGN")
    [] c.f.pc = 1 -> IF Failed(c) THEN Break(c)
                     ELSE Call0(Del(c), 2, "IDENTIFIER_NAME")
    [] c.f.pc = 2 -> Break(c)

H_SCRIPT(c) ==
  CASE c.f.pc = 0 -> CallP(c, 1, "SCRIPT_BODY")
    [] c.f.pc = 1 -> Break(c)

H_SCRIPT_BODY(c) ==
  CASE c.f.pc = 0 -> CallS(c, 1, "STATEMENT_LIST",
                           c.f.flags \ {"GP_YIELD", "GP_AWAIT", "GP_RETURN"})
    [] c.f.pc = 1 -> Break(c)

H_STATEMENT_LIST(c) ==
  CASE c.f.pc = 0 -> CallP(c, 1, "STATEMENT_LIST_ITEM")
    [] c.f.pc = 1 -> IF Failed(c) THEN Break(c)
                     ELSE CallP(Add(c), 1, "STATEMENT_LIST_ITEM")

H_STATEMENT_LIST_ITEM(c) ==
  CASE c.f.pc = 0 -> CallP(c, 1, "STATEMENT")
    [] c.f.pc = 1 -> IF NoMatch(c)
                       THEN CallS(c, 2, "DECLARATION", c.f.flags \ {"GP_RETURN"})
                       ELSE Break(c)
    [] c.f.pc = 2 -> Break(c)

H_ARRAY_EXPRESSION(c) ==
  CASE c.f.pc = 0 -> Call0(c, 1, "TOKEN_LEFT_BRACKET")
    [] c.f.pc = 1 -> IF Failed(c) THEN Break(c) ELSE Call0(Del(c), 2, "EXPRESSION")
    [] c.f.pc = 2 -> IF Failed(c) THEN Break(c)
                     ELSE Call0(Add(c), 3, "TOKEN_RIGHT_BRACKET")
    [] c.f.pc = 3 -> IF Failed(c) THEN Break(c) ELSE Break(DelNull(c))

(* The alternatives of PRIMARY_EXPRESSION in order; pass says whether the  *)
(* call receives flags (TRUE) or 0 (FALSE).                                *)
PrimaryAlternatives ==
  << [type |-> "TOKEN_THIS", pass |-> FALSE],
     [type |-> "TOKEN_NULL", pass |-> FALSE],
     [type |-> "TOKEN_TRUE", pass |-> FALSE],
     [type |-> "TOKEN_FALSE", pass |-> FALSE],
     [type |-> "TOKEN_NUMBER", pass |-> FALSE],
     [type |-> "TOKEN_STRING", pass |-> FALSE],
     [type |-> "ARRAY_LITERAL", pass |-> TRUE],
     [type |-> "OBJECT_LITERAL", pass |-> TRUE],
     [type |-> "FUNCTION_EXPRESSION", pass |-> FALSE],
     [type |-> "CLASS_EXPRESSION", pass |-> TRUE],
     [type |-> "GENERATOR_EXPRESSION", pass |-> FALSE],
     [type |-> "ASYNC_FUNCTION_EXPRESSION", pass |-> FALSE],
     [type |-> "ASYNC_GENERATOR_EXPRESSION", pass |-> FALSE],
     [type |-> "REGEXP_LITERAL", pass |-> FALSE],
     [type |-> "PARENTHESIZED_EXPRESSION", pass |-> TRUE],
     [type |-> "IDENTIFIER_REFERENCE", pass |-> TRUE],
     [type |-> "TEMPLATE_LITERAL", pass |-> TRUE] >>

H_PRIMARY_EXPRESSION(c) ==
  LET k == c.f.pc + 1
      a == PrimaryAlternatives[k]
  IN  IF c.f.pc > 0 /\ ~NoMatch(c) THEN Break(c)
      ELSE IF k > Len(PrimaryAlternatives) THEN Break(c)
      ELSE IF a.type = "TEMPLATE_LITERAL"
        THEN CallS(c, k, a.type, c.f.flags \ {"GP_TAGGED"})
      ELSE IF a.pass THEN CallP(c, k, a.type)
      ELSE Call0(c, k, a.type)

H_IMPORT_META(c) ==
  CASE c.f.pc = 0 -> Call0(c, 1, "TOKEN_IMPORT")
    [] c.f.pc = 1 -> IF Failed(c) THEN Break(c) ELSE Call0(c, 2, "TOKEN_DOT")
    [] c.f.pc = 2 -> IF Failed(c) THEN Break(c) ELSE Call0(c, 3, "TOKEN_META")
    [] c.f.pc = 3 -> Break(c)

H_NEW_TARGET(c) ==
  CASE c.f.pc = 0 -> Call0(c, 1, "TOKEN_NEW")
    [] c.f.pc = 1 -> IF Failed(c) THEN Break(c) ELSE Call0(c, 2, "TOKEN_DOT")
    [] c.f.pc = 2 -> IF Failed(c) THEN Break(c) ELSE Call0(c, 3, "TOKEN_TARGET")
    [] c.f.pc = 3 -> Break(c)

H_META_PROPERTY(c) ==
  CASE c.f.pc = 0 -> Call0(c, 1, "NEW_TARGET")
    [] c.f.pc = 1 -> IF NoMatch(c) THEN Call0(c, 2, "IMPORT_META") ELSE Break(c)
    [] c.f.pc = 2 -> Break(c)

H_SUPER_PROPERTY(c) ==
  CASE c.f.pc = 0 -> Call0(c, 1, "TOKEN_SUPER")
    [] c.f.pc = 1 -> IF Failed(c) THEN Break(c)
                     ELSE CallS(Del(c), 2, "ARRAY_EXPRESSION", c.f.flags \cup {"GP_IN"})
    [] c.f.pc = 2 -> IF NoMatch(c) THEN Call0(c, 3, "DOT_IDENTIFIER_NAME")
                     ELSE Break(c)
    [] c.f.pc = 3 -> Break(c)

(* MEMBER_EXPRESSION after its first alternatives *)
MemberAfter(c) ==
  IF Failed(c) THEN Break(c)
  ELSE IF c.f.type = "TOKEN_NEW" THEN CallP(c, 5, "MEMBER_EXPRESSION")
  ELSE CallP(c, 7, "MEMBER_EXPRESSION_POST")

H_MEMBER_EXPRESSION(c) ==
  CASE c.f.pc = 0 -> CallP(c, 1, "SUPER_PROPERTY")
    [] c.f.pc = 1 -> IF NoMatch(c) THEN Call0(c, 2, "META_PROPERTY") ELSE MemberAfter(c)
    [] c.f.pc = 2 -> IF NoMatch(c) THEN CallP(c, 3, "TOKEN_NEW") ELSE MemberAfter(c)
    [] c.f.pc = 3 -> IF NoMatch(c) THEN CallP(c, 4, "PRIMARY_EXPRESSION")
                     ELSE MemberAfter(c)
    [] c.f.pc = 4 -> MemberAfter(c)
    [] c.f.pc = 5 -> IF Failed(c) THEN Break(c) ELSE CallP(c, 6, "ARGUMENTS")
    [] c.f.pc = 6 -> IF Failed(c) THEN Break(c)
                     ELSE CallP(c, 7, "MEMBER_EXPRESSION_POST")
    [] c.f.pc = 7 -> Break(c)

NewAfter(c) ==
  IF Failed(c) THEN Break(c)
  ELSE IF c.f.type = "MEMBER_EXPRESSION" THEN Break(Add(c))
  ELSE CallP(Add(c), 3, "NEW_EXPRESSION")

H_NEW_EXPRESSION(c) ==
  CASE c.f.pc = 0 -> CallP(c, 1, "MEMBER_EXPRESSION")
    [] c.f.pc = 1 -> IF NoMatch(c) THEN CallP(c, 2, "TOKEN_NEW") ELSE NewAfter(c)
    [] c.f.pc = 2 -> NewAfter(c)
    [] c.f.pc = 3 -> Break(c)

H_CALL_MEMBER_EXPRESSION(c) ==
  CASE c.f.pc = 0 -> CallP(c, 1, "MEMBER_EXPRESSION")
    [] c.f.pc = 1 -> IF Failed(c) THEN Break(c) ELSE CallP(Add(c), 2, "ARGUMENTS")
    [] c.f.pc = 2 -> Break(c)

H_IMPORT_CALL(c) ==
  CASE c.f.pc = 0 -> Call0(c, 1, "TOKEN_IMPORT")
    [] c.f.pc = 1 -> IF Failed(c) THEN Break(c)
                     ELSE Call0(Del(c), 2, "TOKEN_LEFT_PAREN")
    [] c.f.pc = 2 -> IF Failed(c) THEN Break(c)
                     ELSE CallS(Del(c), 3, "ASSIGNMENT_EXPRESSION",
                                c.f.flags \cup {"GP_IN"})
    [] c.f.pc = 3 -> IF Failed(c) THEN Break(c) ELSE Call0(c, 4, "TOKEN_RIGHT_PAREN")
    [] c.f.pc = 4 -> IF Failed(c) THEN Break(c) ELSE Break(Del(c))

H_SUPER_CALL(c) ==
  CASE c.f.pc = 0 -> Call0(c, 1, "TOKEN_SUPER")
    [] c.f.pc = 1 -> IF Failed(c) THEN Break(c) ELSE CallP(Del(c), 2, "ARGUMENTS")
    [] c.f.pc = 2 -> Break(c)

CallAfter(c) ==
  IF Failed(c) THEN Break(c)
  ELSE CallS(Add(c), 4, "CALL_EXPRESSION_POST", c.f.in_flags)

H_CALL_EXPRESSION(c) ==
  CASE c.f.pc = 0 -> CallP(c, 1, "SUPER_CALL")
    [] c.f.pc = 1 -> IF NoMatch(c) THEN CallP(c, 2, "IMPORT_CALL") ELSE CallAfter(c)
    [] c.f.pc = 2 -> IF NoMatch(c) THEN CallP(c, 3, "CALL_MEMBER_EXPRESSION")
                     ELSE CallAfter(c)
    [] c.f.pc = 3 -> CallAfter(c)
    [] c.f.pc = 4 -> IF Failed(c) THEN BreakE(c, ERR_SUCCESS) ELSE Break(c)

(* OPTIONAL_CHAIN_POST, CALL_EXPRESSION_POST, MEMBER_EXPRESSION_POST: the  *)
(* head of one iteration of the loop.                                      *)
PostTop(c) ==
  IF c.f.in_type # "MEMBER_EXPRESSION_POST"
    THEN CallS(c, 1, "ARGUMENTS", c.f.in_flags)
    ELSE CallS(c, 2, "ARRAY_EXPRESSION", c.f.flags \cup {"GP_IN"})

PostTail(c) == IF Failed(c) THEN Break(c) ELSE PostTop(Add(c))

H_POST(c) ==
  CASE c.f.pc = 0 -> PostTop(c)
    [] c.f.pc = 1 -> IF NoMatch(c)
                       THEN CallS(c, 2, "ARRAY_EXPRESSION", c.f.flags \cup {"GP_IN"})
                       ELSE PostTail(c)
    [] c.f.pc = 2 -> IF NoMatch(c)
                       THEN CallS(c, 3, "TEMPLATE_LITERAL",
                                  c.f.in_flags \cup {"GP_TAGGED"})
                       ELSE PostTail(c)
    [] c.f.pc = 3 -> IF NoMatch(c) THEN Call0(c, 4, "DOT_IDENTIFIER_NAME")
                     ELSE PostTail(c)
    [] c.f.pc = 4 -> IF NoMatch(c) THEN Call0(c, 5, "DOT_PRIVATE_IDENTIFIER")
                     ELSE PostTail(c)
    [] c.f.pc = 5 -> PostTail(c)

ChainAfter(c) ==
  IF Failed(c) THEN Break(c)
  ELSE CallS(Add(c), 7, "OPTIONAL_CHAIN_POST", c.f.in_flags)

H_OPTIONAL_CHAIN(c) ==
  CASE c.f.pc = 0 -> Call0(c, 1, "TOKEN_QUESTION_DOT")
    [] c.f.pc = 1 -> IF Failed(c) THEN Break(c) ELSE CallP(c, 2, "ARGUMENTS")
    [] c.f.pc = 2 -> IF NoMatch(c)
                       THEN CallX(c, 3, "ARRAY_EXPRESSION", c.f.flags \cup {"GP_IN"})
                       ELSE ChainAfter(c)
    [] c.f.pc = 3 -> IF NoMatch(c) THEN Call0(c, 4, "IDENTIFIER_NAME")
                     ELSE ChainAfter(c)
    [] c.f.pc = 4 -> IF NoMatch(c)
                       THEN CallS(c, 5, "TEMPLATE_LITERAL",
                                  c.f.in_flags \cup {"GP_TAGGED"})
                       ELSE ChainAfter(c)
    [] c.f.pc = 5 -> IF NoMatch(c) THEN Call0(c, 6, "PRIVATE_IDENTIFIER")
                     ELSE ChainAfter(c)
    [] c.f.pc = 6 -> ChainAfter(c)
    [] c.f.pc = 7 -> IF Failed(c) THEN BreakE(c, ERR_SUCCESS) ELSE Break(c)

OptionalAfter(c) ==
  IF Failed(c) THEN Break(c)
  ELSE CallP([Add(c) EXCEPT !.f.has_opt_chain = FALSE], 3, "OPTIONAL_CHAIN")

H_OPTIONAL_EXPRESSION(c) ==
  CASE c.f.pc = 0 -> CallP(c, 1, "CALL_EXPRESSION")
    [] c.f.pc = 1 -> IF NoMatch(c) THEN CallP(c, 2, "MEMBER_EXPRESSION")
                     ELSE OptionalAfter(c)
    [] c.f.pc = 2 -> OptionalAfter(c)
    [] c.f.pc = 3 -> IF Failed(c)
                       THEN BreakE(c, IF c.f.has_opt_chain THEN ERR_SUCCESS ELSE c.f.err)
                       ELSE CallP(Add(c), 3, "OPTIONAL_CHAIN")

H_LHS_EXPRESSION(c) ==
  CASE c.f.pc = 0 -> CallP(c, 1, "OPTIONAL_EXPRESSION")
    [] c.f.pc = 1 -> IF NoMatch(c) THEN CallP(c, 2, "CALL_EXPRESSION") ELSE Break(c)
    [] c.f.pc = 2 -> IF NoMatch(c) THEN CallP(c, 3, "NEW_EXPRESSION") ELSE Break(c)
    [] c.f.pc = 3 -> Break(c)

(* ASSIGNMENT_EXPRESSION from its "Reparse" comment on *)
Reparse3(c) ==
  IF NoMatch(c) THEN CallP(c, 7, "CONDITIONAL_EXPRESSION") ELSE Break(c)

Reparse2(c) ==
  IF NoMatch(c) THEN CallS(c, 6, "ARROW_FUNCTION", c.f.in_flags) ELSE Reparse3(c)

Reparse(c) == CallS(c, 4, "ASYNC_ARROW_FUNCTION", c.f.in_flags)

H_ASSIGNMENT_EXPRESSION(c) ==
  CASE c.f.pc = 0 -> CallS(c, 1, "LHS_EXPRESSION", c.f.flags \ {"GP_IN"})
    [] c.f.pc = 1 -> IF Failed(c) THEN Reparse(c)
                     ELSE Call0([Add(c) EXCEPT !.f.i = 0], 2, g_assign_expr_ops[1])
    [] c.f.pc = 2 -> IF NoMatch(c) /\ c.f.i + 1 < Len(g_assign_expr_ops)
                       THEN Call0([c EXCEPT !.f.i = @ + 1], 2,
                                  g_assign_expr_ops[c.f.i + 2])
                     ELSE IF Failed(c)
                       THEN Reparse([c EXCEPT !.q_pos = c.f.in_pos,
                                              !.f.i = IF NoMatch(c) THEN @ + 1 ELSE @])
                     ELSE CallS(Add(c), 3, "ASSIGNMENT_EXPRESSION", c.f.in_flags)
    [] c.f.pc = 3 -> Break(c)
    [] c.f.pc = 4 -> IF NoMatch(c) /\ "GP_YIELD" \in c.f.in_flags
                       THEN CallS(c, 5, "YIELD_EXPRESSION", c.f.flags \ {"GP_YIELD"})
                       ELSE Reparse2(c)
    [] c.f.pc = 5 -> Reparse2(c)
    [] c.f.pc = 6 -> Reparse3(c)
    [] c.f.pc = 7 -> Break(c)

H_INITIALIZER(c) ==
  CASE c.f.pc = 0 -> Call0(c, 1, "TOKEN_EQUALS")
    [] c.f.pc = 1 -> IF Failed(c) THEN Break(c)
                     ELSE CallP(Del(c), 2, "ASSIGNMENT_EXPRESSION")
    [] c.f.pc = 2 -> Break(c)

H_BINDING_IDENTIFIER_KeepsChild(c) ==
  CASE c.f.pc = 0 -> Call0(c, 1, "IDENTIFIER_NAME")
    [] c.f.pc = 1 -> IF Failed(c) THEN Break(c)
                     ELSE IF parse_node_is_reserved_word(c.heap, c.f.child)
                       THEN BreakE(Del(c), ERR_NO_MATCH)
                     ELSE Break(c)

H_BINDING_IDENTIFIER(c) ==
  CASE c.f.pc = 0 -> Call0(c, 1, "IDENTIFIER_NAME")
    [] c.f.pc = 1 -> IF Failed(c) THEN Break(c)
                     ELSE IF parse_node_is_reserved_word(c.heap, c.f.child)
                       THEN BreakE(DelNull(c), ERR_NO_MATCH)
                     ELSE Break(c)

DeclarationAfter(c) ==
  IF Failed(c) THEN Break(c)
  ELSE CallS([Add(c) EXCEPT !.f.is_ident = (c.f.type = "BINDING_IDENTIFIER")],
             3, "INITIALIZER", c.f.in_flags)

H_VARIABLE_DECLARATION(c) ==
  CASE c.f.pc = 0 -> CallS(c, 1, "BINDING_IDENTIFIER", c.f.flags \ {"GP_IN"})
    [] c.f.pc = 1 -> IF NoMatch(c) THEN CallP(c, 2, "BINDING_PATTERN")
                     ELSE DeclarationAfter(c)
    [] c.f.pc = 2 -> DeclarationAfter(c)
    [] c.f.pc = 3 -> IF Failed(c) /\ c.f.is_ident THEN BreakE(c, ERR_SUCCESS)
                     ELSE Break(c)

H_VARIABLE_DECLARATION_LIST(c) ==
  CASE c.f.pc = 0 -> CallP(c, 1, "VARIABLE_DECLARATION")
    [] c.f.pc = 1 -> IF Failed(c)
                       THEN IF parse_node_has_children(c.heap, c.f.node)
                              THEN BreakE(c, ERR_SUCCESS) ELSE Break(c)
                       ELSE Call0(Add(c), 2, "TOKEN_COMMA")
    [] c.f.pc = 2 -> IF Failed(c) THEN BreakE(c, ERR_SUCCESS)
                     ELSE CallP(Del(c), 1, "VARIABLE_DECLARATION")

StatementEnd(c) ==
  IF ~Failed(c) THEN Break(DelNull(c))
  ELSE IF c.f.err = ERR_END_OF_FILE THEN BreakE(c, ERR_SUCCESS)
  ELSE Break(c)

H_VARIABLE_STATEMENT(c) ==
  CASE c.f.pc = 0 -> Call0(c, 1, "TOKEN_VAR")
    [] c.f.pc = 1 -> IF Failed(c) THEN Break(c)
                     ELSE CallS(Del(c), 2, "VARIABLE_DECLARATION_LIST",
                                c.f.flags \cup {"GP_IN"})
    [] c.f.pc = 2 -> IF Failed(c) THEN Break(c)
                     ELSE Call0(Add(c), 3, "TOKEN_NEW_LINE")
    [] c.f.pc = 3 -> IF NoMatch(c) THEN Call0(c, 4, "TOKEN_SEMI_COLON")
                     ELSE StatementEnd(c)
    [] c.f.pc = 4 -> StatementEnd(c)

H_BLOCK(c) ==
  CASE c.f.pc = 0 -> Call0(c, 1, "TOKEN_LEFT_BRACE")
    [] c.f.pc = 1 -> IF Failed(c) THEN Break(c)
                     ELSE Call0(Del(c), 2, "TOKEN_RIGHT_BRACE")
    [] c.f.pc = 2 -> IF ~Failed(c) THEN Break(DelNull(c))
                     ELSE CallP(c, 3, "STATEMENT_LIST")
    [] c.f.pc = 3 -> IF Failed(c) THEN Break(c)
                     ELSE Call0(Add(c), 4, "TOKEN_RIGHT_BRACE")
    [] c.f.pc = 4 -> IF Failed(c) THEN Break(c) ELSE Break(DelNull(c))

H_BLOCK_STATEMENT(c) ==
  CASE c.f.pc = 0 -> CallP(c, 1, "BLOCK")
    [] c.f.pc = 1 -> Break(c)

NoReturn(c) == c.f.in_flags \ {"GP_RETURN"}

H_STATEMENT(c) ==
  IF c.f.pc > 0 /\ ~NoMatch(c) THEN Break(c)
  ELSE
  CASE c.f.pc = 0 -> CallP(c, 1, "BLOCK_STATEMENT")
    [] c.f.pc = 1 -> CallS(c, 2, "VARIABLE_STATEMENT", NoReturn(c))
    [] c.f.pc = 2 -> Call0(c, 3, "EMPTY_STATEMENT")
    [] c.f.pc = 3 -> CallP(c, 4, "IF_STATEMENT")
    [] c.f.pc = 4 -> CallP(c, 5, "BREAKABLE_STATEMENT")
    [] c.f.pc = 5 -> CallS(c, 6, "CONTINUE_STATEMENT", NoReturn(c))
    [] c.f.pc = 6 -> CallS(c, 7, "BREAK_STATEMENT", NoReturn(c))
    [] c.f.pc = 7 -> IF "GP_RETURN" \in c.f.in_flags
                       THEN CallS(c, 8, "RETURN_STATEMENT", NoReturn(c))
                       ELSE CallP(c, 9, "WITH_STATEMENT")
    [] c.f.pc = 8 -> CallP(c, 9, "WITH_STATEMENT")
    [] c.f.pc = 9 -> CallP(c, 10, "LABELLED_STATEMENT")
    [] c.f.pc = 10 -> CallS(c, 11, "THROW_STATEMENT", NoReturn(c))
    [] c.f.pc = 11 -> CallP(c, 12, "TRY_STATEMENT")
    [] c.f.pc = 12 -> Call0(c, 13, "DEBUGGER_STATEMENT")
    [] c.f.pc = 13 -> CallS(c, 14, "EXPRESSION_STATEMENT", NoReturn(c))
    [] c.f.pc = 14 -> Break(c)

-----------------------------------------------------------------------------
(* The switch of parser_parse. *)

NewLineTerminals == {"TOKEN_NEW_LINE"}

ReservedLiteralTerminals ==
  {"TOKEN_VAR", "TOKEN_SUPER", "TOKEN_IMPORT", "TOKEN_THIS", "TOKEN_NEW",
   "TOKEN_NULL", "TOKEN_TRUE", "TOKEN_FALSE"}

PunctuationTerminals ==
  {"TOKEN_NUMBER", "TOKEN_STRING", "TOKEN_LEFT_BRACE", "TOKEN_RIGHT_BRACE",
   "TOKEN_LEFT_BRACKET", "TOKEN_RIGHT_BRACKET", "TOKEN_SEMI_COLON", "TOKEN_COMMA",
   "TOKEN_EQUALS"}

(* The cases that call parser_get_token themselves *)
FetchSymbols ==
  NewLineTerminals \cup ReservedLiteralTerminals \cup PunctuationTerminals
    \cup {"IDENTIFIER_NAME"}

(* The cases that recurse *)
NonTerminals ==
  {"PRIVATE_IDENTIFIER", "SCRIPT", "SCRIPT_BODY", "STATEMENT_LIST",
   "STATEMENT_LIST_ITEM", "ARRAY_EXPRESSION", "PRIMARY_EXPRESSION", "IMPORT_META",
   "NEW_TARGET", "META_PROPERTY", "SUPER_PROPERTY", "MEMBER_EXPRESSION",
   "NEW_EXPRESSION", "CALL_MEMBER_EXPRESSION", "IMPORT_CALL", "SUPER_CALL",
   "CALL_EXPRESSION", "OPTIONAL_CHAIN_POST", "CALL_EXPRESSION_POST",
   "MEMBER_EXPRESSION_POST", "OPTIONAL_CHAIN", "OPTIONAL_EXPRESSION",
   "LHS_EXPRESSION", "ASSIGNMENT_EXPRESSION", "INITIALIZER", "BINDING_IDENTIFIER",
   "VARIABLE_DECLARATION", "VARIABLE_DECLARATION_LIST", "VARIABLE_STATEMENT",
   "BLOCK", "BLOCK_STATEMENT", "STATEMENT"}

Handler(c) ==
  CASE c.f.in_type = "PRIVATE_IDENTIFIER" -> H_PRIVATE_IDENTIFIER(c)
    [] c.f.in_type = "SCRIPT" -> H_SCRIPT(c)
    [] c.f.in_type = "SCRIPT_BODY" -> H_SCRIPT_BODY(c)
    [] c.f.in_type = "STATEMENT_LIST" -> H_STATEMENT_LIST(c)
    [] c.f.in_type = "STATEMENT_LIST_ITEM" -> H_STATEMENT_LIST_ITEM(c)
    [] c.f.in_type = "ARRAY_EXPRESSION" -> H_ARRAY_EXPRESSION(c)
    [] c.f.in_type = "PRIMARY_EXPRESSION" -> H_PRIMARY_EXPRESSION(c)
    [] c.f.in_type = "IMPORT_META" -> H_IMPORT_META(c)
    [] c.f.in_type = "NEW_TARGET" -> H_NEW_TARGET(c)
    [] c.f.in_type = "META_PROPERTY" -> H_META_PROPERTY(c)
    [] c.f.in_type = "SUPER_PROPERTY" -> H_SUPER_PROPERTY(c)
    [] c.f.in_type = "MEMBER_EXPRESSION" -> H_MEMBER_EXPRESSION(c)
    [] c.f.in_type = "NEW_EXPRESSION" -> H_NEW_EXPRESSION(c)
    [] c.f.in_type = "CALL_MEMBER_EXPRESSION" -> H_CALL_MEMBER_EXPRESSION(c)
    [] c.f.in_type = "IMPORT_CALL" -> H_IMPORT_CALL(c)
    [] c.f.in_type = "SUPER_CALL" -> H_SUPER_CALL(c)
    [] c.f.in_type = "CALL_EXPRESSION" -> H_CALL_EXPRESSION(c)
    [] c.f.in_type \in {"OPTIONAL_CHAIN_POST", "CALL_EXPRESSION_POST",
                        "MEMBER_EXPRESSION_POST"} -> H_POST(c)
    [] c.f.in_type = "OPTIONAL_CHAIN" -> H_OPTIONAL_CHAIN(c)
    [] c.f.in_type = "OPTIONAL_EXPRESSION" -> H_OPTIONAL_EXPRESSION(c)
    [] c.f.in_type = "LHS_EXPRESSION" -> H_LHS_EXPRESSION(c)
    [] c.f.in_type = "ASSIGNMENT_EXPRESSION" -> H_ASSIGNMENT_EXPRESSION(c)
    [] c.f.in_type = "INITIALIZER" -> H_INITIALIZER(c)
    [] c.f.in_type = "BINDING_IDENTIFIER" -> H_BINDING_IDENTIFIER(c)
    [] c.f.in_type = "VARIABLE_DECLARATION" -> H_VARIABLE_DECLARATION(c)
    [] c.f.in_type = "VARIABLE_DECLARATION_LIST" -> H_VARIABLE_DECLARATION_LIST(c)
    [] c.f.in_type = "VARIABLE_STATEMENT" -> H_VARIABLE_STATEMENT(c)
    [] c.f.in_type = "BLOCK" -> H_BLOCK(c)
    [] c.f.in_type = "BLOCK_STATEMENT" -> H_BLOCK_STATEMENT(c)
    [] c.f.in_type = "STATEMENT" -> H_STATEMENT(c)

(* Epilogue without `*q_pos = in_pos` on the error path. *)
Epilogue_NoRestore(c) ==
  IF c.f.err = ERR_SUCCESS
    THEN [err |-> c.f.err, out |-> c.f.node,
          heap |-> IF c.f.child # NULL
                     THEN parse_node_add_child(c.heap, c.f.node, c.f.child)
                     ELSE c.heap,
          q_pos |-> c.q_pos, asserted |-> TRUE]
    ELSE [err |-> c.f.err, out |-> NULL,
          heap |-> parse_node_delete(
                     IF c.f.child # NULL THEN parse_node_delete(c.heap, c.f.child)
                     ELSE c.heap,
                     c.f.node),
          q_pos |-> c.q_pos, asserted |-> (c.f.child = NULL)]

(* Epilogue with `*out = node` on both paths. *)
Epilogue_StoresNode(c) ==
  IF c.f.err = ERR_SUCCESS
    THEN [err |-> c.f.err, out |-> c.f.node,
          heap |-> IF c.f.child # NULL
                     THEN parse_node_add_child(c.heap, c.f.node, c.f.child)
                     ELSE c.heap,
          q_pos |-> c.q_pos, asserted |-> TRUE]
    ELSE [err |-> c.f.err, out |-> c.f.node,
          heap |-> parse_node_delete(
                     IF c.f.child # NULL THEN parse_node_delete(c.heap, c.f.child)
                     ELSE c.heap,
                     c.f.node),
          q_pos |-> c.f.in_pos, asserted |-> (c.f.child = NULL)]

(* The end of parser_parse, from `if (!err)` on.  The result says what is  *)
(* stored through out and q_pos and what is returned; asserted is the      *)
(* value of the expression of the assert on the error path.                *)
Epilogue(c) ==
  LET f  == c.f
      h1 == IF f.child # NULL THEN parse_node_add_child(c.heap, f.node, f.child)
            ELSE c.heap
      h2 == parse_node_delete(
              IF f.child # NULL THEN parse_node_delete(c.heap, f.child) ELSE c.heap,
              f.node)
  IN  IF f.err = ERR_SUCCESS
        THEN [err |-> f.err, out |-> f.node, heap |-> h1, q_pos |-> c.q_pos,
              asserted |-> TRUE]
        ELSE [err |-> f.err, out |-> NULL, heap |-> h2, q_pos |-> f.in_pos,
              asserted |-> (f.child = NULL)]

(* The cases that fetch a token, from the call of parser_get_token to the  *)
(* break; g is what parser_get_token returned for the cursor c.q_pos and   *)
(* failN says whether the parse_node_new of IDENTIFIER_NAME fails.         *)
H_NEW_LINE(c, g) ==
  IF g.err # ERR_SUCCESS THEN [c EXCEPT !.f.err = g.err]
  ELSE IF token_has_new_line_pfx(g.token)
    THEN [c EXCEPT !.f.err = ERR_SUCCESS, !.q_pos = c.q_pos]
  ELSE [c EXCEPT !.f.err = ERR_NO_MATCH, !.q_pos = g.pos]

H_RESERVED_LITERAL(c, g) ==
  IF g.err = ERR_SUCCESS
     /\ (g.token.type # c.f.type \/ ~token_is_reserved_literal(g.token))
    THEN [c EXCEPT !.f.err = ERR_NO_MATCH, !.q_pos = g.pos]
    ELSE [c EXCEPT !.f.err = g.err, !.q_pos = g.pos]

H_PUNCTUATION_AnyType(c, g) == [c EXCEPT !.f.err = g.err, !.q_pos = g.pos]

H_PUNCTUATION(c, g) ==
  IF g.err = ERR_SUCCESS /\ g.token.type # c.f.type
    THEN [c EXCEPT !.f.err = ERR_NO_MATCH, !.q_pos = g.pos]
    ELSE [c EXCEPT !.f.err = g.err, !.q_pos = g.pos]

H_IDENTIFIER_NAME(c, g, failN) ==
  LET h1 == parse_node_delete(c.heap, c.f.node)
      h2 == parse_node_new(h1, g.token.type)
  IN  IF g.err # ERR_SUCCESS THEN [c EXCEPT !.f.err = g.err]
      ELSE IF ~token_is_identifier_name(g.token)
        THEN [c EXCEPT !.f.err = ERR_NO_MATCH, !.q_pos = g.pos]
      ELSE IF token_is_reserved_word(g.token)
        THEN IF failN
               THEN [c EXCEPT !.f.err = ERR_NO_MEMORY, !.f.node = NULL, !.heap = h1,
                              !.q_pos = g.pos]
               ELSE [c EXCEPT !.f.err = ERR_SUCCESS, !.f.node = LastNode(h2),
                              !.heap = h2, !.q_pos = g.pos]
      ELSE [c EXCEPT !.f.err = ERR_SUCCESS, !.q_pos = g.pos,
                     !.heap = parse_node_set_cooked(c.heap, c.f.node, g.pos)]

FetchHandler(c, g, failN) ==
  CASE c.f.in_type \in NewLineTerminals -> H_NEW_LINE(c, g)
    [] c.f.in_type \in ReservedLiteralTerminals -> H_RESERVED_LITERAL(c, g)
    [] c.f.in_type \in PunctuationTerminals -> H_PUNCTUATION(c, g)
    [] c.f.in_type = "IDENTIFIER_NAME" -> H_IDENTIFIER_NAME(c, g, failN)

-----------------------------------------------------------------------------
(* Inputs.  A source text is a sequence of at most MaxLexemes lexemes, or  *)
(* one of the sample texts.  At most one allocation of a run fails: the    *)
(* n-th parse_node ("node"), the n-th allocation of the scanner ("scan")   *)
(* or the n-th growth of the token array ("cache"), n <= MaxOomAt.         *)

MaxLexemes == 3

MaxOomAt == 3

Lexemes ==
  { <<"v", "a", "r", " ">>, <<"x", " ">>, <<"i", "f", " ">>, <<"LF">>,
    <<"=", " ">>, <<"DQ", "a", "DQ">> }

RECURSIVE Flatten(_)
Flatten(ss) == IF ss = << >> THEN << >> ELSE Head(ss) \o Flatten(Tail(ss))

LexemeTexts ==
  { Flatten(ss) : ss \in UNION { [1..n -> Lexemes] : n \in 0..MaxLexemes } }

SampleTexts ==
  { <<"DQ", "a", "b", "c">>,
    <<"DQ", "a", "b", "LF">>,
    <<"v", "a", "r", " ", "x", " ", "=", " ", "DQ", "a">>,
    <<"v", "a", "r", " ", "x", ";">>,
    <<";">>,
    <<"v", "a", "r", " ", "x", " ", "y", " ", "z">>,
    <<"v", "a", "r", " ", "x", "LF", "v", "a", "r", " ", "y", "LF", "=">>,
    <<"v", "a", "r", " ", "x", " ", "=", " ", "t", "h", "i", "s">>,
    <<"v", "a", "r", " ", "x", " ", "=", " ", "s", "u", "p", "e", "r", " ", "x">>,
    <<"v", "a", "r", " ", "x", " ", "=", " ", "i", "m", "p", "o", "r", "t", " ", "x">>,
    <<"v", "a", "r", " ", "x", " ", "=", " ", "n", "e", "w", " ", "x">>,
    <<"v", "a", "r", " ", "x", " ", "=", " ", "DQ", "a", "DQ">>,
    <<"v", "a", "r", " ", "x", " ", "=", " ", "DQ", "a", "DQ", " ", "x">>,
    <<"v", "a", "r", " ", "x", " ", "DQ", "a", "LF">>,
    <<"/", "*", "LF", "*", "/", "v", "a", "r", " ", "x">>,
    <<"v", "a", "r", " ", "x", "LF", "v", "a", "r", " ", "y">> }

Sources == LexemeTexts \cup SampleTexts

OomChoices ==
  { [kind |-> "none", n |-> 0] }
    \cup { [kind |-> k, n |-> n] : k \in {"node", "scan", "cache"}, n \in 1..MaxOomAt }

NoFetch == [pos |-> 0, num |-> 0, err |-> ERR_SUCCESS, scanned |-> FALSE,
            token |-> NoToken, exit |-> FALSE]

Trail(op, sym, in_pos, err, out, fetched, fetch) ==
  [op |-> op, sym |-> sym, in_pos |-> in_pos, err |-> err, out |-> out,
   fetched |-> fetched, fetch |-> fetch]

NoTrail == Trail("none", "TOKEN_INVALID", 0, ERR_SUCCESS, NULL, FALSE, NoFetch)

Init ==
  /\ scanner \in { NewScanner(src) : src \in Sources }
  /\ parser = [tokens |-> << >>, num_tokens |-> 0, root |-> NULL]
  /\ heap = EmptyHeap
  /\ stack = << >>
  /\ q_pos = 0
  /\ phase = "start"
  /\ status = ERR_SUCCESS
  /\ oom \in OomChoices
  /\ allocs = [node |-> 0, scan |-> 0, cache |-> 0]
  /\ produced = << >>
  /\ trail = NoTrail

-----------------------------------------------------------------------------
(* Which allocation of the step fails. *)
NodeFails(k) == oom.kind = "node" /\ allocs.node + k = oom.n

ScanFail == IF oom.kind = "scan" /\ oom.n > allocs.scan THEN oom.n - allocs.scan ELSE 0

CacheFails == oom.kind = "cache" /\ allocs.cache + 1 = oom.n

Top == stack[Len(stack)]

(* The return of the innermost activation: err and the node stored through *)
(* out reach the caller's err and child, or parser_parse_script's err and  *)
(* this->root.                                                             *)
Return(err, out, p) ==
  IF Len(stack) = 1
    THEN /\ stack' = << >>
         /\ parser' = [p EXCEPT !.root = out]
         /\ phase' = "return"
         /\ status' = err
    ELSE /\ stack' = [k \in 1..(Len(stack) - 1) |->
                        IF k = Len(stack) - 1
                          THEN [stack[k] EXCEPT !.err = err, !.child = out]
                          ELSE stack[k]]
         /\ parser' = p
         /\ phase' = phase
         /\ status' = status

(* exit(0) *)
ExitProcess(p) ==
  /\ stack' = stack
  /\ parser' = p
  /\ phase' = "exited"
  /\ status' = 0

(* The failed assert(child == NULL) of a build with assertions *)
AbortProcess(p) ==
  /\ stack' = stack
  /\ parser' = p
  /\ phase' = "aborted"
  /\ status' = status

(* What a handler's command does to the run. *)
Run(cmd, p, fetched, fetch, ndebug) ==
  LET e == Epilogue([f |-> cmd.f, heap |-> cmd.heap, q_pos |-> cmd.q_pos])
      t == Top
  IN  CASE cmd.kind = "call" ->
             /\ stack' = [stack EXCEPT ![Len(stack)] = cmd.f]
                           \o << NewFrame(cmd.ctype, cmd.cflags, cmd.q_pos) >>
             /\ parser' = p
             /\ heap' = cmd.heap
             /\ q_pos' = cmd.q_pos
             /\ UNCHANGED << phase, status >>
             /\ trail' = Trail("call", t.in_type, t.in_pos, ERR_SUCCESS, NULL,
                               fetched, fetch)
        [] cmd.kind = "exit" ->
             /\ ExitProcess(p)
             /\ heap' = cmd.heap
             /\ q_pos' = cmd.q_pos
             /\ trail' = Trail("exit", t.in_type, t.in_pos, ERR_SUCCESS, NULL,
                               fetched, fetch)
        [] cmd.kind = "break" /\ ~e.asserted /\ ~ndebug ->
             /\ AbortProcess(p)
             /\ heap' = cmd.heap
             /\ q_pos' = cmd.q_pos
             /\ trail' = Trail("abort", t.in_type, t.in_pos, cmd.f.err, NULL,
                               fetched, fetch)
        [] cmd.kind = "break" /\ (e.asserted \/ ndebug) ->
             /\ Return(e.err, e.out, p)
             /\ heap' = e.heap
             /\ q_pos' = e.q_pos
             /\ trail' = Trail("return", t.in_type, t.in_pos, e.err, e.out,
                               fetched, fetch)

-----------------------------------------------------------------------------
(* parser_parse_script up to its call of parser_parse(this, SCRIPT, 0, ..) *)
ParserParseScript ==
  /\ phase = "start"
  /\ phase' = "parse"
  /\ q_pos' = 0
  /\ stack' = << NewFrame("SCRIPT", {}, 0) >>
  /\ trail' = Trail("start", "SCRIPT", 0, ERR_SUCCESS, NULL, FALSE, NoFetch)
  /\ UNCHANGED << scanner, parser, heap, status, oom, allocs, produced >>

(* The start of an activation: *out = child = NULL, parse_node_new.  When  *)
(* the allocation fails the call returns at once.                          *)
PrologueFails ==
  /\ NodeFails(1)
  /\ Return(ERR_NO_MEMORY, NULL, parser)
  /\ allocs' = [allocs EXCEPT !.node = @ + 1]
  /\ trail' = Trail("return", Top.in_type, Top.in_pos, ERR_NO_MEMORY, NULL, FALSE,
                    NoFetch)
  /\ UNCHANGED << scanner, heap, q_pos, oom, produced >>

Entered(h) == [f |-> [Top EXCEPT !.node = LastNode(h), !.pc = 0], heap |-> h,
               q_pos |-> q_pos]

(* A call of parser_parse for a symbol that recurses, up to its first      *)
(* inner call.                                                             *)
ParserParseEnter ==
  /\ phase = "parse"
  /\ Top.pc = -1
  /\ Top.in_type \in NonTerminals
  /\ \/ PrologueFails
     \/ /\ ~NodeFails(1)
        /\ \E ndebug \in BOOLEAN :
             Run(Handler(Entered(parse_node_new(heap, Top.in_type))), parser, FALSE,
                 NoFetch, ndebug)
        /\ allocs' = [allocs EXCEPT !.node = @ + 1]
        /\ UNCHANGED << scanner, oom, produced >>

(* An activation continues after an inner call has returned, up to its     *)
(* next inner call or its return.                                          *)
ParserParseResume ==
  /\ phase = "parse"
  /\ Top.pc >= 0
  /\ \E ndebug \in BOOLEAN :
       Run(Handler([f |-> Top, heap |-> heap, q_pos |-> q_pos]), parser, FALSE,
           NoFetch, ndebug)
  /\ UNCHANGED << scanner, oom, allocs, produced >>

(* What a fetching call does once parser_get_token has returned g: the    *)
(* test of the token, the second node of a reserved word, the return.      *)
Fetched(c, g) ==
  /\ \E ndebug \in BOOLEAN :
       Run(IF g.exit THEN Exit(c) ELSE Break(FetchHandler(c, g, NodeFails(2))), g.p,
           TRUE,
           [pos |-> q_pos, num |-> parser.num_tokens, err |-> g.err,
            scanned |-> g.scanned, token |-> g.token, exit |-> g.exit],
           ndebug)
  /\ scanner' = g.s
  /\ allocs' = [node |-> allocs.node
                          + (IF /\ Top.in_type = "IDENTIFIER_NAME"
                                /\ g.err = ERR_SUCCESS
                                /\ token_is_reserved_word(g.token)
                               THEN 2 ELSE 1),
                scan |-> allocs.scan + g.na,
                cache |-> allocs.cache + g.nr]
  /\ produced' = IF g.nr = 1 THEN Append(produced, g.made) ELSE produced
  /\ oom' = oom

(* A call of parser_parse for a terminal or IDENTIFIER_NAME: one call of   *)
(* parser_get_token, the test of the token, and the return.                *)
ParserParseFetch ==
  /\ phase = "parse"
  /\ Top.pc = -1
  /\ Top.in_type \in FetchSymbols
  /\ \/ PrologueFails
     \/ /\ ~NodeFails(1)
        /\ Fetched(Entered(parse_node_new(heap, Top.in_type)),
                   parser_get_token(parser, scanner, q_pos, ScanFail, CacheFails))

(* A call of parser_parse for a symbol without a case: the default label   *)
(* prints and calls exit(0).                                               *)
ParserParseUnsupported ==
  /\ phase = "parse"
  /\ Top.pc = -1
  /\ Top.in_type \notin NonTerminals \cup FetchSymbols
  /\ \/ PrologueFails
     \/ /\ ~NodeFails(1)
        /\ \E ndebug \in BOOLEAN :
             Run(Exit(Entered(parse_node_new(heap, Top.in_type))), parser, FALSE,
                 NoFetch, ndebug)
        /\ allocs' = [allocs EXCEPT !.node = @ + 1]
        /\ UNCHANGED << scanner, oom, produced >>

ParserParseScriptReturn_Restarts ==
  /\ phase = "return"
  /\ phase' = "start"
  /\ scanner' = NewScanner(scanner.src)
  /\ parser' = [tokens |-> << >>, num_tokens |-> 0, root |-> NULL]
  /\ heap' = EmptyHeap
  /\ q_pos' = 0
  /\ status' = ERR_SUCCESS
  /\ allocs' = [node |-> 0, scan |-> 0, cache |-> 0]
  /\ produced' = << >>
  /\ trail' = NoTrail
  /\ UNCHANGED << stack, oom >>

(* parser_parse_script after parser_parse has returned *)
ParserParseScriptReturn ==
  /\ phase = "return"
  /\ phase' = "returned"
  /\ status' = IF status = ERR_END_OF_FILE THEN ERR_SUCCESS ELSE status
  /\ trail' = Trail("done", "SCRIPT", 0, status', parser.root, FALSE, NoFetch)
  /\ UNCHANGED << scanner, parser, heap, stack, q_pos, oom, allocs, produced >>

(* main after parser_parse_script: parser_delete.  A second free() of a    *)
(* buffer is undefined: the allocator may end the process, or go on.       *)
ParserDelete ==
  /\ phase = "returned"
  /\ heap' = parser_delete(heap, parser)
  /\ phase' \in IF DoubleFree(heap', parser) THEN {"deleted", "aborted"}
                                             ELSE {"deleted"}
  /\ UNCHANGED << scanner, parser, stack, q_pos, status, oom, allocs, produced, trail >>

Next ==
  \/ ParserParseScript
  \/ ParserParseEnter
  \/ ParserParseResume
  \/ ParserParseFetch
  \/ ParserParseUnsupported
  \/ ParserParseScriptReturn
  \/ ParserDelete

Spec == Init /\ [][Next]_vars

-----------------------------------------------------------------------------
(* The scanner alone: scanner_get_next_token called on a text until it     *)
(* fails or ends the process.                                              *)

MaxWords == 3

Words == { <<"a">>, <<"v", "a", "r">>, <<"v", "a", "r", "i">>, <<"=">> }

Gaps == { <<" ">>, <<"LF">>, <<"/", "*", "LF", "*", "/">>, <<"/", "/", "a", "LF">> }

RECURSIVE WordTexts(_)
WordTexts(n) ==
  IF n = 1 THEN Words
  ELSE WordTexts(n - 1)
         \cup { t \o g \o w : t \in WordTexts(n - 1), g \in Gaps, w \in Words }

(* Every keyword, every keyword without its last unit, every keyword with  *)
(* one more unit.                                                          *)
KeyWordTexts ==
  UNION { { g_key_words[i],
            SubSeq(g_key_words[i], 1, Len(g_key_words[i]) - 1),
            Append(g_key_words[i], "s") } : i \in 1..Len(g_key_words) }

(* Names that fill the static buffer exactly, and run over it by one unit. *)
LongTexts ==
  { [k \in 1..n |-> "a"] : n \in {NAME_BUF, NAME_BUF + 1} }

StringTexts ==
  { <<"DQ", "a", "DQ", " ", "SQ", "a", "BSL", "n", "SQ", " ", "a">>,
    <<"a", " ", "DQ", "a", "b", "c">>,
    <<"a", "LF", "DQ", "a", "LF", "DQ">>,
    <<"=", "=", "=", "=", ">", "=", "=", " ", "a", ";">>,
    <<"a", "/", "*", "a", "*", "/", " ", "a">>,
    <<"a", "/", "*", "a", "*", "/", "/", "/", "a", "LF", "a">>,
    <<"a", " ", "/", "*", "*", "/", "a", "=", ">", "a">>,
    <<"=", "=", ">", "a">>,
    <<"=", "=", "=", "=">> }

ScanSources == WordTexts(MaxWords) \cup KeyWordTexts \cup LongTexts \cup StringTexts

ScanInit ==
  /\ scanner \in { NewScanner(src) : src \in ScanSources }
  /\ parser = [tokens |-> << >>, num_tokens |-> 0, root |-> NULL]
  /\ heap = EmptyHeap
  /\ stack = << >>
  /\ q_pos = 0
  /\ phase = "scan"
  /\ status = ERR_SUCCESS
  /\ oom \in { c \in OomChoices : c.kind \in {"none", "scan"} }
  /\ allocs = [node |-> 0, scan |-> 0, cache |-> 0]
  /\ produced = << >>
  /\ trail = NoTrail

(* What is left once scanner_get_next_token has returned r *)
Scanned(r) ==
  /\ scanner' = r.s
  /\ allocs' = [allocs EXCEPT !.scan = @ + r.na]
  /\ produced' = IF ~r.exit /\ r.err = ERR_SUCCESS THEN Append(produced, r.token)
                 ELSE produced
  /\ phase' = IF r.exit THEN "exited" ELSE IF r.err # ERR_SUCCESS THEN "failed"
              ELSE "scan"
  /\ status' = IF r.exit THEN 0 ELSE r.err
  /\ UNCHANGED << parser, heap, stack, q_pos, oom, trail >>

ScannerGetNextToken ==
  /\ phase = "scan"
  /\ Scanned(scanner_get_next_token(scanner, ScanFail))

ScanNext == ScannerGetNextToken

ScanSpec == ScanInit /\ [][ScanNext]_vars

(* The spelling of each reserved word and the enumerator named after it    *)
(* (enum token_type).                                                      *)
KeywordSpelling ==
  { << <<"a","s">>, "TOKEN_AS" >>,
    << <<"d","o">>, "TOKEN_DO" >>,
    << <<"i","f">>, "TOKEN_IF" >>,
    << <<"i","n">>, "TOKEN_IN" >>,
    << <<"o","f">>, "TOKEN_OF" >>,
    << <<"f","o","r">>, "TOKEN_FOR" >>,
    << <<"g","e","t">>, "TOKEN_GET" >>,
    << <<"l","e","t">>, "TOKEN_LET" >>,
    << <<"n","e","w">>, "TOKEN_NEW" >>,
    << <<"s","e","t">>, "TOKEN_SET" >>,
    << <<"t","r","y">>, "TOKEN_TRY" >>,
    << <<"v","a","r">>, "TOKEN_VAR" >>,
    << <<"c","a","s","e">>, "TOKEN_CASE" >>,
    << <<"e","l","s","e">>, "TOKEN_ELSE" >>,
    << <<"e","n","u","m">>, "TOKEN_ENUM" >>,
    << <<"f","r","o","m">>, "TOKEN_FROM" >>,
    << <<"m","e","t","a">>, "TOKEN_META" >>,
    << <<"n","u","l","l">>, "TOKEN_NULL" >>,
    << <<"t","h","i","s">>, "TOKEN_THIS" >>,
    << <<"t","r","u","e">>, "TOKEN_TRUE" >>,
    << <<"v","o","i","d">>, "TOKEN_VOID" >>,
    << <<"w","i","t","h">>, "TOKEN_WITH" >>,
    << <<"a","s","y","n","c">>, "TOKEN_ASYNC" >>,
    << <<"a","w","a","i","t">>, "TOKEN_AWAIT" >>,
    << <<"b","r","e","a","k">>, "TOKEN_BREAK" >>,
    << <<"c","a","t","c","h">>, "TOKEN_CATCH" >>,
    << <<"c","l","a","s","s">>, "TOKEN_CLASS" >>,
    << <<"c","o","n","s","t">>, "TOKEN_CONST" >>,
    << <<"f","a","l","s","e">>, "TOKEN_FALSE" >>,
    << <<"s","u","p","e","r">>, "TOKEN_SUPER" >>,
    << <<"t","h","r","o","w">>, "TOKEN_THROW" >>,
    << <<"w","h","i","l","e">>, "TOKEN_WHILE" >>,
    << <<"y","i","e","l","d">>, "TOKEN_YIELD" >>,
    << <<"d","e","l","e","t","e">>, "TOKEN_DELETE" >>,
    << <<"e","x","p","o","r","t">>, "TOKEN_EXPORT" >>,
    << <<"i","m","p","o","r","t">>, "TOKEN_IMPORT" >>,
    << <<"p","u","b","l","i","c">>, "TOKEN_PUBLIC" >>,
    << <<"r","e","t","u","r","n">>, "TOKEN_RETURN" >>,
    << <<"s","t","a","t","i","c">>, "TOKEN_STATIC" >>,
    << <<"s","w","i","t","c","h">>, "TOKEN_SWITCH" >>,
    << <<"t","a","r","g","e","t">>, "TOKEN_TARGET" >>,
    << <<"t","y","p","e","o","f">>, "TOKEN_TYPEOF" >>,
    << <<"d","e","f","a","u","l","t">>, "TOKEN_DEFAULT" >>,
    << <<"e","x","t","e","n","d","s">>, "TOKEN_EXTENDS" >>,
    << <<"f","i","n","a","l","l","y">>, "TOKEN_FINALLY" >>,
    << <<"p","a","c","k","a","g","e">>, "TOKEN_PACKAGE" >>,
    << <<"p","r","i","v","a","t","e">>, "TOKEN_PRIVATE" >>,
    << <<"c","o","n","t","i","n","u","e">>, "TOKEN_CONTINUE" >>,
    << <<"d","e","b","u","g","g","e","r">>, "TOKEN_DEBUGGER" >>,
    << <<"f","u","n","c","t","i","o","n">>, "TOKEN_FUNCTION" >>,
    << <<"i","n","t","e","r","f","a","c","e">>, "TOKEN_INTERFACE" >>,
    << <<"p","r","o","t","e","c","t","e","d">>, "TOKEN_PROTECTED" >>,
    << <<"i","m","p","l","e","m","e","n","t","s">>, "TOKEN_IMPLEMENTS" >>,
    << <<"i","n","s","t","a","n","c","e","o","f">>, "TOKEN_INSTANCEOF" >> }

(* The text of the k-th token produced, and the text skipped before it. *)
RawText(k) ==
  SubSeq(scanner.src, produced[k].locn.scan_pos + 1,
         produced[k].locn.scan_pos + produced[k].raw_len)

GapBefore(k) ==
  SubSeq(scanner.src,
         IF k = 1 THEN 1 ELSE produced[k - 1].locn.scan_pos + produced[k - 1].raw_len + 1,
         produced[k].locn.scan_pos)

IsKeyWord(text) == \E i \in 1..Len(g_key_words) : g_key_words[i] = text

(* C8: a name that is entry i of g_key_words gets the type                 *)
(* TOKEN_IDENTIFIER + i + 1, which is the enumerator named after it; any   *)
(* other name gets TOKEN_IDENTIFIER and its own text as cooked text.       *)
C8_KeyWordOrIdentifier ==
  \A k \in 1..Len(produced) :
    is_id_start(scanner.src[produced[k].locn.scan_pos + 1])
      => /\ \A i \in 1..Len(g_key_words) :
              g_key_words[i] = RawText(k)
                => /\ produced[k].type = EnumName(EnumVal["TOKEN_IDENTIFIER"] + i)
                   /\ << RawText(k), produced[k].type >> \in KeywordSpelling
         /\ ~IsKeyWord(RawText(k))
              => /\ produced[k].type = "TOKEN_IDENTIFIER"
                 /\ produced[k].has_cooked
                 /\ produced[k].cooked = RawText(k)
                 /\ produced[k].cooked_len = Len(RawText(k))

(* The text `var vari` was scanned: a keyword, then a name that extends it *)
C8_Witness ==
  /\ Len(produced) >= 2
  /\ RawText(1) = <<"v", "a", "r">>
  /\ produced[1].type = "TOKEN_VAR"
  /\ RawText(2) = <<"v", "a", "r", "i">>
  /\ produced[2].type = "TOKEN_IDENTIFIER"

(* C9: a token carries TF_NL_PFX exactly when the text skipped between the *)
(* token before it (or the start) and the token holds a line terminator.   *)
C9_NewLinePrefix ==
  \A k \in 1..Len(produced) :
    ("TF_NL_PFX" \in produced[k].flags)
      <=> (\E m \in 1..Len(GapBefore(k)) : is_line_terminator(GapBefore(k)[m]))

TypeOK ==
  /\ phase \in {"start", "parse", "return", "returned", "deleted", "exited",
               "aborted", "scan", "failed"}
  /\ \A k \in 1..Len(stack) : stack[k].in_type \in DOMAIN EnumVal
  /\ \A k \in 1..Len(heap.node) : heap.node[k].type \in DOMAIN EnumVal

-----------------------------------------------------------------------------
(* Properties of parser_parse and parser_parse_script.                     *)

HardFailures == {ERR_END_OF_FILE, ERR_INVALID_TOKEN, ERR_NO_MEMORY}

(* The scanner stands at the end of the text, white space and comments     *)
(* aside.                                                                  *)
AtEndOfInput ==
  scanner_peek(scanner_skip_white_space(scanner).s, 0).err = ERR_END_OF_FILE

(* C1: a call of parser_parse that returns ERR_NO_MATCH leaves the token   *)
(* cursor at the value it had when the call began.                         *)
C1_NoMatchRestoresCursor ==
  (trail.op = "return" /\ trail.err = ERR_NO_MATCH) => q_pos = trail.in_pos

(* A terminal took a token from the buffer, which moved the cursor, found  *)
(* another type and returned ERR_NO_MATCH.                                 *)
C1_Witness ==
  /\ trail.op = "return"
  /\ trail.err = ERR_NO_MATCH
  /\ trail.fetched
  /\ trail.fetch.err = ERR_SUCCESS
  /\ trail.fetch.pos = trail.in_pos
  /\ q_pos = trail.in_pos

(* C2: when parser_parse_script returns 0, parser->root is a node of type  *)
(* SCRIPT and not NULL.                                                    *)
C2_SuccessHasRoot ==
  (phase = "returned" /\ status = ERR_SUCCESS)
    => (parser.root # NULL /\ heap.node[parser.root].type = "SCRIPT")

(* C3: when parser_parse_script returns a nonzero status, parser->root is  *)
(* NULL.                                                                   *)
C3_FailureHasNoRoot ==
  (phase = "returned" /\ status # ERR_SUCCESS) => parser.root = NULL

(* parser_parse_script returned ERR_INVALID_TOKEN after nodes below SCRIPT *)
(* had been built.                                                         *)
C3_Witness ==
  /\ phase = "returned"
  /\ status = ERR_INVALID_TOKEN
  /\ Len(heap.node) > 1
  /\ parser.root = NULL

(* C4: when an inner parser_parse call or a token fetch returns            *)
(* ERR_END_OF_FILE, ERR_INVALID_TOKEN or ERR_NO_MEMORY, the enclosing call *)
(* does nothing but return that error: no further inner call, no further   *)
(* fetch, no other result.                                                 *)
C4_HardFailurePropagates ==
  [][ /\ (trail.op = "return" /\ trail.err \in HardFailures /\ phase = "parse")
         => (trail'.op = "return" /\ trail'.err = trail.err)
      /\ (trail'.op = "return" /\ trail'.fetched /\ trail'.fetch.err \in HardFailures)
         => trail'.err = trail'.fetch.err ]_vars

(* C5: when the text ends right after `var`, parser_parse_script returns   *)
(* ERR_END_OF_FILE.                                                        *)
C5_UnfinishedIsEndOfFile ==
  ( /\ phase = "returned"
    /\ oom.kind = "none"
    /\ produced # << >>
    /\ produced[Len(produced)].type = "TOKEN_VAR"
    /\ AtEndOfInput )
    => status = ERR_END_OF_FILE

(* C6: a run that reaches a code unit no token starts with, or a symbol    *)
(* without a case in parser_parse, ends with a nonzero status.             *)
C6_UnsupportedFails ==
  phase = "exited" => status # 0

(* The scanner stands before a quote that no later quote of the same kind  *)
(* closes.                                                                 *)
Unterminated(s) ==
  \E k \in 1..s.src_len :
    /\ k = scanner_skip_white_space(s).s.curr_locn.scan_pos + 1
    /\ s.src[k] \in {"DQ", "SQ"}
    /\ \A m \in (k + 1)..s.src_len : s.src[m] # s.src[k]

(* C7: a string without its closing quote, cut off by a line terminator or *)
(* by the end of the text, makes the scanner fail with ERR_INVALID_TOKEN,  *)
(* and parser_parse_script returns ERR_INVALID_TOKEN for such a text.      *)
C7_UnterminatedString ==
  Unterminated(scanner)
    => /\ scanner_get_next_token(scanner, 0).err = ERR_INVALID_TOKEN
       /\ (phase = "returned" /\ oom.kind = "none") => status = ERR_INVALID_TOKEN

(* C10: parser_get_token below the end of the buffer returns the buffered  *)
(* token and moves the cursor by one without a scanner call; at the end it *)
(* calls the scanner once and on success appends the token.  So entry i of *)
(* the buffer is the i-th token the scanner produced.                      *)
C10_BufferIsScanOrder ==
  /\ (trail.fetched /\ trail.fetch.pos < trail.fetch.num)
       => /\ ~trail.fetch.scanned
          /\ trail.fetch.err = ERR_SUCCESS
          /\ trail.fetch.token = parser.tokens[trail.fetch.pos + 1]
  /\ (trail.fetched /\ trail.fetch.pos = trail.fetch.num /\ ~trail.fetch.exit)
       => /\ trail.fetch.scanned
          /\ trail.fetch.err = ERR_SUCCESS
               => /\ parser.num_tokens = trail.fetch.num + 1
                  /\ parser.tokens[parser.num_tokens] = trail.fetch.token
  /\ parser.num_tokens = Len(parser.tokens)
  /\ parser.num_tokens <= Len(produced)
  /\ \A k \in 1..parser.num_tokens : parser.tokens[k] = produced[k]

-----------------------------------------------------------------------------
(* C11: during the parse the token buffer only grows: after every step the *)
(* buffer holds at least as many tokens as before and every token it held  *)
(* is still there, at the same index and unaltered; and a step whose call  *)
(* of parser_get_token failed leaves the buffer and the cursor as they     *)
(* were.                                                                   *)
C11_CacheOnlyGrows ==
  [][ /\ parser'.num_tokens >= parser.num_tokens
      /\ Len(parser'.tokens) >= Len(parser.tokens)
      /\ \A k \in 1..Len(parser.tokens) : parser'.tokens[k] = parser.tokens[k]
      /\ (phase = "parse" /\ Top.pc = -1 /\ trail'.fetched
          /\ trail'.fetch.err # ERR_SUCCESS)
           => /\ parser'.tokens = parser.tokens
              /\ parser'.num_tokens = parser.num_tokens
              /\ q_pos' = q_pos ]_vars

(* A call of the scanner failed when the buffer already held two tokens *)
C11_Witness ==
  /\ trail.fetched /\ trail.fetch.scanned /\ trail.fetch.err # ERR_SUCCESS
  /\ trail.fetch.num >= 2 /\ parser.num_tokens = trail.fetch.num
  /\ q_pos = trail.fetch.pos

-----------------------------------------------------------------------------
(* C12: once parser_delete has returned, parse_node_delete has run exactly *)
(* once on every node parse_node_new allocated during the parse, and no    *)
(* node is still allocated.                                                *)
C12_NodesReleasedOnce ==
  phase = "deleted"
    => \A a \in 1..Len(heap.node) :
         heap.node[a].deleted = 1 /\ ~heap.node[a].live

-----------------------------------------------------------------------------
(* C13: a cooked buffer belongs to its token alone: no cooked buffer is    *)
(* handed to free() through a parse node, no buffer is freed twice, and    *)
(* once parser_delete has returned the buffer of every token of the token  *)
(* buffer has been freed exactly once.                                     *)
C13_CookedOwnedByToken ==
  /\ heap.freed = << >>
  /\ ~DoubleFree(heap, parser)
  /\ phase = "deleted"
       => \A k \in 1..parser.num_tokens :
            parser.tokens[k].has_cooked
              => Cardinality({ i \in 1..Len(Frees(heap, parser)) :
                                Frees(heap, parser)[i] = k }) = 1

-----------------------------------------------------------------------------
(* The nodes of the tree below the node at address a, a included *)
RECURSIVE Under(_, _)
Under(h, a) ==
  IF a = NULL THEN {}
  ELSE {a} \cup UNION { Under(h, h.node[a].nodes[i]) : i \in 1..Len(h.node[a].nodes) }

(* The nodes the program still holds a pointer to: this->root, the node of *)
(* every activation, and the child of the innermost one (the child of an   *)
(* activation that waits for a call was set to NULL by that call).         *)
Held ==
  {parser.root} \cup { stack[k].node : k \in 1..Len(stack) }
    \cup (IF stack = << >> THEN {} ELSE {Top.child})

(* C14: while the process runs, every node parser_parse built, the nodes   *)
(* built from consumed tokens included, is accounted for: it was deleted   *)
(* (a discarded marker, a failed path), or it is held by an activation or  *)
(* attached, directly or through descendants, to a node that is held; no   *)
(* node is dropped by overwriting the only pointer to it.                  *)
C14_NoNodeDropped ==
  phase \notin {"exited", "aborted"}
    => \A a \in 1..Len(heap.node) :
         heap.node[a].deleted = 0 => a \in UNION { Under(heap, r) : r \in Held }

-----------------------------------------------------------------------------
(* The nodes of type t in the tree below this->root *)
RootNodes(t) == { a \in Under(heap, parser.root) : heap.node[a].type = t }

(* C15: when no allocation fails, the run on the text `var x;` ends with   *)
(* parser_parse_script returning success and a root whose tree holds       *)
(* exactly one variable statement with one declaration: a binding          *)
(* identifier whose identifier name has the cooked text `x`, and no        *)
(* initializer.                                                            *)
C15_VarStatementTree ==
  (scanner.src = <<"v", "a", "r", " ", "x", ";">> /\ oom.kind = "none"
   /\ phase \in {"returned", "deleted", "exited", "aborted"})
    => /\ phase \in {"returned", "deleted"}
       /\ status = ERR_SUCCESS
       /\ parser.root # NULL
       /\ Cardinality(RootNodes("VARIABLE_STATEMENT")) = 1
       /\ Cardinality(RootNodes("VARIABLE_DECLARATION")) = 1
       /\ Cardinality(RootNodes("BINDING_IDENTIFIER")) = 1
       /\ RootNodes("INITIALIZER") = {}
       /\ \E a \in RootNodes("IDENTIFIER_NAME") :
            /\ heap.node[a].cooked # NULL
            /\ parser.tokens[heap.node[a].cooked].cooked = <<"x">>

-----------------------------------------------------------------------------
(* C16: when no allocation fails, on the text `var if` BINDING_IDENTIFIER  *)
(* returns ERR_NO_MATCH with the cursor where it was at its entry, and the *)
(* run ends with parser_parse_script returning ERR_NO_MATCH: it does not   *)
(* end with success or with the exit status 0.                             *)
C16_ReservedWordRejected ==
  (scanner.src = <<"v", "a", "r", " ", "i", "f", " ">> /\ oom.kind = "none")
    => /\ (trail.op = "return" /\ trail.sym = "BINDING_IDENTIFIER")
            => (trail.err = ERR_NO_MATCH /\ q_pos = trail.in_pos)
       /\ phase \in {"returned", "deleted", "exited", "aborted"}
            => (phase \in {"returned", "deleted"} /\ status = ERR_NO_MATCH)

-----------------------------------------------------------------------------
(* C17: when scanner_get_next_token fails inside a token, with             *)
(* ERR_INVALID_TOKEN, ERR_END_OF_FILE or ERR_NO_MEMORY, the current        *)
(* location on return (scan_pos, file_row, file_col) is the location of    *)
(* the first code unit of that token, the one the white space skip stopped *)
(* at, and a second call whose allocations answer alike fails with the     *)
(* same error and leaves the scanner as it is.                             *)
C17_Again(r) ==
  /\ r.err = status'
  /\ ~r.exit
  /\ r.s = scanner'

C17_FailureRestoresStart ==
  [][ (phase = "scan" /\ phase' = "failed")
        => /\ scanner'.curr_locn = scanner_skip_white_space(scanner).s.curr_locn
           /\ C17_Again(scanner_get_next_token(scanner', ScanFail)) ]_vars

(* The text a, line feed, "a, line feed, ": the string on the second row   *)
(* failed at its line feed and the location is back on its opening quote.  *)
C17_Witness ==
  /\ phase = "failed"
  /\ status = ERR_INVALID_TOKEN
  /\ Len(produced) = 1
  /\ scanner.curr_locn = [file_row |-> 1, file_col |-> 0, scan_pos |-> 2]
  /\ scanner.src[scanner.curr_locn.scan_pos + 1] = "DQ"

-----------------------------------------------------------------------------
(* C18: over the calls of scanner_get_next_token the scan position never   *)
(* decreases and never passes the length of the text; every token produced *)
(* has a raw length of at least 1, which is the distance from its start to *)
(* the scan position right after it; and every token starts at or after    *)
(* the end of the token before it and ends within the text.                *)
C18_TokenSpan(k) ==
  /\ produced'[k].raw_len >= 1
  /\ produced'[k].locn.scan_pos + produced'[k].raw_len <= scanner.src_len
  /\ k > 1 => produced'[k].locn.scan_pos
                >= produced'[k - 1].locn.scan_pos + produced'[k - 1].raw_len

C18_PositionsAdvance ==
  [][ /\ scanner'.curr_locn.scan_pos >= scanner.curr_locn.scan_pos
      /\ scanner'.curr_locn.scan_pos <= scanner.src_len
      /\ \A k \in 1..Len(produced') : C18_TokenSpan(k)
      /\ Len(produced') > Len(produced)
           => scanner'.curr_locn.scan_pos
                = produced'[Len(produced')].locn.scan_pos
                    + produced'[Len(produced')].raw_len ]_vars

(* Three tokens were produced, the last one after a skipped comment and    *)
(* ending where the text ends.                                             *)
C18_Witness ==
  /\ Len(produced) = 3
  /\ produced[3].locn.scan_pos > produced[2].locn.scan_pos + produced[2].raw_len + 1
  /\ produced[3].raw_len > 1
  /\ scanner.curr_locn.scan_pos = scanner.src_len

-----------------------------------------------------------------------------
(* C19: before each token every run of white space, line terminators and   *)
(* comments is skipped, in any order and number: the code unit a token     *)
(* scan starts at, and so the one the scanner ends the process at, is      *)
(* neither white space nor a line terminator nor the start of a comment,   *)
(* also when a comment without a line terminator came before it.           *)
C19_TokenStart(s) ==
  scanner_peek(s, 0).err = ERR_SUCCESS
    => /\ ~is_white_space(scanner_peek(s, 0).cu)
       /\ ~is_line_terminator(scanner_peek(s, 0).cu)
       /\ ~ /\ scanner_peek(s, 0).cu = "/"
             /\ scanner_peek(s, 1).err = ERR_SUCCESS
             /\ scanner_peek(s, 1).cu \in {"/", "*"}

C19_GapsSkipped ==
  /\ phase = "scan" => C19_TokenStart(scanner_skip_white_space(scanner).s)
  /\ phase = "exited" => C19_TokenStart(scanner)

-----------------------------------------------------------------------------
(* C20: a token that starts with = is the longest of =, ==, === and =>     *)
(* that the text goes on with from there: => is TOKEN_ARROW, == before >   *)
(* is TOKEN_DOUBLE_EQUALS and leaves the >, ==== is TOKEN_TRIPLE_EQUALS    *)
(* and leaves one =, and the raw length is 1, 2 or 3 to match.             *)
C20_UnitAt(k, i) ==
  IF produced[k].locn.scan_pos + i < scanner.src_len
    THEN scanner.src[produced[k].locn.scan_pos + i + 1]
    ELSE "NUL"

C20_Longest(k) ==
  IF C20_UnitAt(k, 1) = "=" /\ C20_UnitAt(k, 2) = "="
    THEN << "TOKEN_TRIPLE_EQUALS", 3 >>
  ELSE IF C20_UnitAt(k, 1) = "=" THEN << "TOKEN_DOUBLE_EQUALS", 2 >>
  ELSE IF C20_UnitAt(k, 1) = ">" THEN << "TOKEN_ARROW", 2 >>
  ELSE << "TOKEN_EQUALS", 1 >>

C20_LongestEquals ==
  \A k \in 1..Len(produced) :
    C20_UnitAt(k, 0) = "="
      => << produced[k].type, produced[k].raw_len >> = C20_Longest(k)

(* The text ====>== a; gave ===, then =>, then ==. *)
C20_Witness ==
  /\ Len(produced) >= 3
  /\ produced[1].type = "TOKEN_TRIPLE_EQUALS" /\ produced[1].raw_len = 3
  /\ produced[2].type = "TOKEN_ARROW" /\ produced[2].locn.scan_pos = 3
  /\ produced[3].type = "TOKEN_DOUBLE_EQUALS" /\ produced[3].locn.scan_pos = 5

-----------------------------------------------------------------------------
(* C21: a call of parser_parse for a terminal fetches the one token at its *)
(* entry cursor; when a token was got the call succeeds exactly if the     *)
(* token has the type of the terminal and, for the reserved-word           *)
(* terminals, no TF_UNC_SEQ flag; on success the cursor is one further, on *)
(* a mismatch the result is ERR_NO_MATCH and the cursor is the entry       *)
(* cursor.                                                                 *)
C21_Matches(sym, token) ==
  /\ token.type = sym
  /\ sym \in ReservedLiteralTerminals => ~token_has_unc_esc(token)

C21_TerminalMatch ==
  ( /\ trail.op = "return" /\ trail.fetched
    /\ trail.sym \in ReservedLiteralTerminals \cup PunctuationTerminals )
    => /\ trail.fetch.pos = trail.in_pos
       /\ trail.fetch.err = ERR_SUCCESS
            => /\ (trail.err = ERR_SUCCESS) <=> C21_Matches(trail.sym, trail.fetch.token)
               /\ trail.err = ERR_SUCCESS => q_pos = trail.in_pos + 1
               /\ trail.err # ERR_SUCCESS
                    => trail.err = ERR_NO_MATCH /\ q_pos = trail.in_pos
       /\ trail.fetch.err # ERR_SUCCESS => trail.err = trail.fetch.err

(* The terminal `this` was offered the string of `var x = "a"` and the     *)
(* cursor stayed on the string.                                            *)
C21_Witness ==
  /\ trail.op = "return" /\ trail.fetched
  /\ trail.sym = "TOKEN_THIS"
  /\ trail.fetch.err = ERR_SUCCESS
  /\ trail.fetch.token.type = "TOKEN_STRING"
  /\ trail.err = ERR_NO_MATCH
  /\ q_pos = 3 /\ trail.in_pos = 3

-----------------------------------------------------------------------------
(* C22: STATEMENT_LIST keeps its successes: when one statement or more has *)
(* been parsed and the next attempt finds no statement or the end of the   *)
(* input, the list returns ERR_SUCCESS and its node, with one child for    *)
(* every statement parsed and the cursor just after the last of them.      *)
C22_ListEnds ==
  /\ phase = "parse"
  /\ stack # << >>
  /\ Top.in_type = "STATEMENT_LIST"
  /\ Top.pc = 1
  /\ Top.err \in {ERR_NO_MATCH, ERR_END_OF_FILE}
  /\ Len(heap.node[Top.node].nodes) >= 1

C22_ListRetained ==
  [][ C22_ListEnds
        => /\ trail'.op = "return"
           /\ trail'.sym = "STATEMENT_LIST"
           /\ trail'.err = ERR_SUCCESS
           /\ trail'.out = Top.node
           /\ heap'.node[Top.node].nodes = heap.node[Top.node].nodes
           /\ \A i \in 1..Len(heap.node[Top.node].nodes) :
                heap'.node[heap.node[Top.node].nodes[i]].deleted = 0
           /\ q_pos' = q_pos ]_vars

-----------------------------------------------------------------------------
(* C23: after `var` and a declaration list VARIABLE_STATEMENT tries the    *)
(* TOKEN_NEW_LINE pseudo-terminal, then the `;`.  A next token with a line *)
(* terminator before it ends the statement with success and stays          *)
(* unconsumed; otherwise a `;` is consumed and ends it with success; the   *)
(* end of the input ends it with success; any other token makes it fail    *)
(* with ERR_NO_MATCH and the cursor back before `var`.                     *)
C23_At(pc) ==
  /\ phase = "parse"
  /\ stack # << >>
  /\ Top.in_type = "VARIABLE_STATEMENT"
  /\ Top.pc = pc

C23_Returns(err, pos) ==
  /\ trail'.op = "return"
  /\ trail'.sym = "VARIABLE_STATEMENT"
  /\ trail'.err = err
  /\ q_pos' = pos

(* The steps of VARIABLE_STATEMENT after the pseudo-terminal and after the *)
(* `;` terminal have returned.                                             *)
C23_EndSteps ==
  /\ (C23_At(3) /\ Top.err = ERR_SUCCESS)
       => /\ C23_Returns(ERR_SUCCESS, q_pos)
          /\ q_pos < parser.num_tokens
          /\ token_has_new_line_pfx(parser.tokens[q_pos + 1])
  /\ (C23_At(3) /\ Top.err = ERR_END_OF_FILE) => C23_Returns(ERR_SUCCESS, q_pos)
  /\ (C23_At(3) /\ Top.err = ERR_NO_MATCH)
       => /\ trail'.op = "call"
          /\ stack'[Len(stack')].in_type = "TOKEN_SEMI_COLON"
  /\ (C23_At(4) /\ Top.err = ERR_SUCCESS)
       => /\ C23_Returns(ERR_SUCCESS, q_pos)
          /\ parser.tokens[q_pos].type = "TOKEN_SEMI_COLON"
  /\ (C23_At(4) /\ Top.err = ERR_END_OF_FILE) => C23_Returns(ERR_SUCCESS, q_pos)
  /\ (C23_At(4) /\ Top.err = ERR_NO_MATCH) => C23_Returns(ERR_NO_MATCH, Top.in_pos)

(* A `;` after `var` reaches the parser as a token: no fetch made inside a *)
(* VARIABLE_STATEMENT that has matched its `var` ends the process on it.   *)
C23_SemiColonFetched ==
  ( /\ phase' = "exited" /\ trail'.fetched /\ trail'.fetch.exit
    /\ \E k \in 1..Len(stack) :
         stack[k].in_type = "VARIABLE_STATEMENT" /\ stack[k].pc >= 2 )
    => scanner'.src[scanner'.curr_locn.scan_pos + 1] # ";"

C23_VarStatementEnd == [][ C23_EndSteps /\ C23_SemiColonFetched ]_vars

-----------------------------------------------------------------------------
(* C24: within one non-terminal every alternative gets its parameter set   *)
(* from the set captured at entry: a bit forced on or off for an earlier   *)
(* alternative that returned ERR_NO_MATCH does not reach a later one.  The *)
(* alternatives below are written with the plain `flags` in the source, so *)
(* the callee's set is the caller's entry set: BINDING_PATTERN after       *)
(* BINDING_IDENTIFIER in VARIABLE_DECLARATION, and IF_STATEMENT,           *)
(* BREAKABLE_STATEMENT, WITH_STATEMENT, LABELLED_STATEMENT, TRY_STATEMENT  *)
(* in STATEMENT, for any incoming set.                                     *)
C24_PassedOn ==
  { << "VARIABLE_DECLARATION", "BINDING_PATTERN" >>,
    << "STATEMENT", "IF_STATEMENT" >>,
    << "STATEMENT", "BREAKABLE_STATEMENT" >>,
    << "STATEMENT", "WITH_STATEMENT" >>,
    << "STATEMENT", "LABELLED_STATEMENT" >>,
    << "STATEMENT", "TRY_STATEMENT" >> }

(* The set the case of STATEMENT passes to the alternative `target` when   *)
(* every alternative before it returns ERR_NO_MATCH.                       *)
RECURSIVE C24_Passes(_, _)
C24_Passes(cmd, target) ==
  IF cmd.kind # "call" THEN {"none"}
  ELSE IF cmd.ctype = target THEN cmd.cflags
  ELSE C24_Passes(H_STATEMENT([f |-> [cmd.f EXCEPT !.err = ERR_NO_MATCH],
                               heap |-> cmd.heap, q_pos |-> cmd.q_pos]), target)

C24_Statement(fl, target) ==
  C24_Passes(H_STATEMENT([f |-> [NewFrame("STATEMENT", fl, 0) EXCEPT !.pc = 0],
                          heap |-> EmptyHeap, q_pos |-> 0]), target)

C24_EntrySetPassed ==
  /\ \A k \in 1..(Len(stack) - 1) :
       << stack[k].in_type, stack[k + 1].in_type >> \in C24_PassedOn
         => stack[k + 1].in_flags = stack[k].in_flags
  /\ \A fl \in SUBSET {"GP_RETURN", "GP_IN", "GP_YIELD"} :
       \A pair \in C24_PassedOn :
         pair[1] = "STATEMENT" => C24_Statement(fl, pair[2]) = fl

-----------------------------------------------------------------------------
(* C25: parser_parse_script terminates on every text: no run takes steps   *)
(* for ever, so from some point on nothing changes any more; and every     *)
(* symbol that returns success, the TOKEN_NEW_LINE look-ahead apart, has   *)
(* moved the cursor forward, so a loop over successful parses cannot stay  *)
(* in place.                                                               *)
C25_Progress ==
  (trail.op = "return" /\ trail.err = ERR_SUCCESS /\ trail.sym # "TOKEN_NEW_LINE")
    => q_pos > trail.in_pos

C25_Terminates == <>[][FALSE]_vars /\ []C25_Progress

(* The run of `var x`, line feed, `var y` has come to its end after two    *)
(* rounds of the statement list.                                           *)
C25_Witness ==
  /\ phase = "deleted"
  /\ scanner.src = <<"v", "a", "r", " ", "x", "LF", "v", "a", "r", " ", "y">>
  /\ oom.kind = "none"
  /\ parser.num_tokens = 4

-----------------------------------------------------------------------------
(* C27: during a parse the cursor is never past the end of the token       *)
(* buffer: the cursor of the run and the entry cursor of every open call   *)
(* are at most num_tokens, every call of parser_get_token is made with a   *)
(* cursor of at most num_tokens, and ERR_INVALID_PARAMETER is never        *)
(* returned.                                                               *)
C27_CursorInBuffer ==
  /\ q_pos <= parser.num_tokens
  /\ \A k \in 1..Len(stack) : stack[k].in_pos <= parser.num_tokens
  /\ trail.fetched
       => /\ trail.fetch.pos <= trail.fetch.num
          /\ trail.fetch.err # ERR_INVALID_PARAMETER
  /\ trail.err # ERR_INVALID_PARAMETER
  /\ status # ERR_INVALID_PARAMETER
  /\ \A k \in 1..Len(stack) : stack[k].err # ERR_INVALID_PARAMETER

(* A fetch made below the end of a buffer of three tokens, after the       *)
(* cursor had been put back: the token came from the buffer.               *)
C27_Witness ==
  /\ trail.fetched
  /\ trail.fetch.num = 3
  /\ trail.fetch.pos = 2
  /\ ~trail.fetch.scanned
  /\ trail.fetch.err = ERR_SUCCESS

-----------------------------------------------------------------------------
(* C28: whenever parser_parse returns an error, the node stored through    *)
(* out is NULL and the local child is NULL at the check at the end of the  *)
(* function: assert(child == NULL) never fails, and the caller finds its   *)
(* own child NULL and its err set to the error returned.                   *)
C28_NoPendingChild ==
  /\ trail.op # "abort"
  /\ (trail.op = "return" /\ trail.err # ERR_SUCCESS)
       => /\ trail.out = NULL
          /\ stack # << >> => (Top.child = NULL /\ Top.err = trail.err)
          /\ stack = << >> => parser.root = NULL

(* BINDING_IDENTIFIER has turned the success of IDENTIFIER_NAME on the     *)
(* reserved word `if` into ERR_NO_MATCH and returned.                      *)
C28_Witness ==
  /\ trail.op = "return"
  /\ trail.sym = "BINDING_IDENTIFIER"
  /\ trail.err = ERR_NO_MATCH
  /\ parser.num_tokens = 2
  /\ parser.tokens[2].type = "TOKEN_IF"
  /\ Top.in_type = "VARIABLE_DECLARATION"
  /\ Top.child = NULL

-----------------------------------------------------------------------------
(* C26: VARIABLE_DECLARATION_LIST consumes a comma only when a declaration *)
(* follows it: when the list returns success the cursor is not just past a *)
(* comma.  Checked on the returns of the runs, and on the case itself for  *)
(* the tokens `x , ;` after `var`: the declaration of x succeeds at cursor *)
(* 1, the comma is matched at cursor 2, the declaration at cursor 3 fails  *)
(* with ERR_NO_MATCH.                                                      *)
C26_Resumed(cmd, err, h, child, pos) ==
  H_VARIABLE_DECLARATION_LIST(
    [f |-> [cmd.f EXCEPT !.err = err, !.child = child], heap |-> h, q_pos |-> pos])

(* The list node is node 1; the first declaration is node 2, the comma     *)
(* node 3.                                                                 *)
C26_Entered ==
  H_VARIABLE_DECLARATION_LIST(
    [f |-> [NewFrame("VARIABLE_DECLARATION_LIST", {"GP_IN"}, 1)
              EXCEPT !.node = 1, !.pc = 0],
     heap |-> parse_node_new(EmptyHeap, "VARIABLE_DECLARATION_LIST"), q_pos |-> 1])

C26_Declared ==
  C26_Resumed(C26_Entered, ERR_SUCCESS,
              parse_node_new(C26_Entered.heap, "VARIABLE_DECLARATION"), 2, 2)

C26_CommaTaken ==
  C26_Resumed(C26_Declared, ERR_SUCCESS,
              parse_node_new(C26_Declared.heap, "TOKEN_COMMA"), 3, 3)

C26_NoDeclaration ==
  C26_Resumed(C26_CommaTaken, ERR_NO_MATCH, C26_CommaTaken.heap, NULL, 3)

C26_Left ==
  Epilogue([f |-> C26_NoDeclaration.f, heap |-> C26_NoDeclaration.heap,
            q_pos |-> C26_NoDeclaration.q_pos])

=============================================================================
